---- MODULE Spec2Model ----
(***************************************************************************)
(* Model of the ModalEffect synthesis core: ModalVoice (one resonator      *)
(* instance and its state machine), NodeManager (fixed node network, note  *)
(* routing), VoiceAllocator (pool allocation with oldest-voice stealing),  *)
(* EventQueue and the SynthEngine slicing scheduler.                       *)
(*                                                                         *)
(* Abstractions.  Amplitudes are naturals 0..MaxAmp (0 is the zero modal   *)
(* state); velocities are positive naturals.  Buffer sizes and periods are *)
(* scaled down: the source has NUM_NETWORK_NODES = 5, MAX_EVENTS = 512,    *)
(* CONTROL_RATE_SAMPLES = 240 and samples_per_update_ = sample_rate / 500. *)
(* modal_node.c and TopologyEngine.cpp are not part of the sources at      *)
(* hand; modal_node_step, modal_node_apply_poke, modal_node_reset and the  *)
(* coupling update are modelled from their documented behaviour.           *)
(***************************************************************************)
EXTENDS Integers, Sequences, FiniteSets, TLC

\* ------------------------------------------------------------------------
\* Bounds of the model
\* ------------------------------------------------------------------------
\* number of nodes of the network (NUM_NETWORK_NODES, 5 in the source)
NUM_NETWORK_NODES == 3
\* capacity of the event queue (EventQueue::MAX_EVENTS, 512 in the source)
MAX_EVENTS == 2
\* control period of the engine in frames (CONTROL_RATE_SAMPLES, 240)
CONTROL_RATE_SAMPLES == 3
\* per-voice control period in frames (samples_per_update_, 96 at 48 kHz)
SamplesPerUpdate == 2
\* largest abstract amplitude
MaxAmp == 2
\* ages saturate here
MaxAge == 2
\* largest block rendered in one call: longer than the control period
MaxFrames == CONTROL_RATE_SAMPLES + 1
\* voices of the VoiceAllocator pool (max_polyphony_, 16 by default)
\* prepare calls are followed until this many buffers have been lost
MaxLeaked == 4
\* PitchDetector::window_samples_ (a 40 ms window), scaled down
WindowSamples == 3
\* ResonantBodyProcessor::control_period_samples_, scaled down
ControlPeriod == 2
\* the pitch estimates counted per processor
MaxDetections == 2

MaxPolyphony == 2

Min(a, b) == IF a < b THEN a ELSE b
Max(a, b) == IF a > b THEN a ELSE b

NodeIdx == 0 .. (NUM_NETWORK_NODES - 1)
NoNode == 255
Notes == {60, 61}
Velocities == {1}
Channels == {0, 1}
States == {"Inactive", "Attack", "Sustain", "Release"}

\* ------------------------------------------------------------------------
\* modal_node (documented behaviour)
\* ------------------------------------------------------------------------
\* modal_node_reset: clears all mode amplitudes
modal_node_reset(amp) == 0

\* a timestep with no damping: the amplitude stays
modal_node_step_undamped(amp) == amp

\* modal_node_step: one control timestep of a damped mode (gamma > 0)
modal_node_step(amp) == amp \div 2

\* modal_node_apply_poke: additive excitation
modal_node_apply_poke(amp, strength) == Min(MaxAmp, amp + strength)

\* modal_node_get_amplitude
modal_node_get_amplitude(amp) == amp

\* ------------------------------------------------------------------------
\* ModalVoice
\* ------------------------------------------------------------------------
\* a voice as constructed by ModalVoice::ModalVoice
NewVoice(personality) ==
    [state |-> "Inactive", amp |-> 0, age |-> 0, midi_note |-> 60,
     samples_since_update |-> 0, personality |-> personality]

isActive(v) == v.state # "Inactive"

MV_reset(v) ==
    [v EXCEPT !.amp = modal_node_reset(v.amp), !.state = "Inactive",
              !.age = 0, !.samples_since_update = 0]

MV_noteOn(v, midi_note, velocity) ==
    [v EXCEPT !.midi_note = midi_note, !.state = "Attack", !.age = 0,
              !.amp = modal_node_apply_poke(v.amp, velocity)]

MV_noteOff(v) ==
    IF v.state = "Inactive" THEN v ELSE [v EXCEPT !.state = "Release"]

\* a state update that sustains whatever the personality
MV_updateState_anySustain(v) ==
    CASE v.state = "Attack" -> [v EXCEPT !.state = "Sustain"]
      [] v.state = "Release" ->
           IF modal_node_get_amplitude(v.amp) < 1 THEN MV_reset(v) ELSE v
      [] OTHER -> v

\* ModalVoice::updateState (silence threshold 0.001: amplitude 0 here)
MV_updateState(v) ==
    CASE v.state = "Attack" ->
           IF v.personality = "SelfOscillator"
           THEN [v EXCEPT !.state = "Sustain"] ELSE v
      [] v.state = "Release" ->
           IF modal_node_get_amplitude(v.amp) < 1 THEN MV_reset(v) ELSE v
      [] OTHER -> v

\* modes of a node (MAX_MODES)
MAX_MODES == 4
ModeIdx == 0 .. (MAX_MODES - 1)

\* midi_to_freq: equal-tempered frequency of a note, in Hz (rounded)
midi_to_freq(note) ==
    CASE note = 60 -> 262
      [] note = 61 -> 277
      [] OTHER -> 440

\* freq_to_omega: 2 * pi * f, in fixed point
freq_to_omega(freq_hz) == (freq_hz * 628) \div 100

\* the modes of a node after modal_node_init: nothing configured
NoModes == [k \in ModeIdx |-> [omega |-> 0, gamma |-> 0, weight |-> 0]]

\* modal_node_set_mode
modal_node_set_mode(modes, mode_idx, omega, gamma, weight) ==
    [modes EXCEPT ![mode_idx] =
       [omega |-> omega, gamma |-> gamma, weight |-> weight]]

\* ModalVoice::setMode
MV_setMode(modes, mode_idx, freq_hz, damping, weight) ==
    IF mode_idx >= MAX_MODES THEN modes
    ELSE modal_node_set_mode(modes, mode_idx, freq_to_omega(freq_hz),
                             damping, weight)

\* the pitch bend amounts: wheel centred and fully up
BendAmounts == {0, 1}

\* powf(2, pitch_bend * 2 / 12) in thousandths: 1 for the centred wheel,
\* two semitones up (1.122) for the wheel fully up
bend_factor(bend) == IF bend = 1 THEN 1122 ELSE 1000

\* ModalVoice::getBaseFrequency: the note's frequency times the bend factor
MV_getBaseFrequency(midi_note, bend) ==
    (midi_to_freq(midi_note) * bend_factor(bend)) \div 1000

\* the mode ratios of ModalVoice: 1, 1.01, 2 and 3, in hundredths; a
\* frequency times a ratio is in hundredths of a Hz
HardcodedRatio == [k \in ModeIdx |-> CASE k = 0 -> 100 [] k = 1 -> 101
                                         [] k = 2 -> 200 [] OTHER -> 300]

\* the default mode configuration of ModalVoice::initialize, damping and
\* weight in tenths
MV_initializeModes(modes, midi_note) ==
    LET base_freq == midi_to_freq(midi_note)
        m0 == MV_setMode(modes, 0, base_freq * 100, 5, 10)
        m1 == MV_setMode(m0, 1, base_freq * 101, 6, 7)
        m2 == MV_setMode(m1, 2, base_freq * 200, 8, 5)
    IN  MV_setMode(m2, 3, base_freq * 300, 10, 3)

\* ModalVoice::updateFrequencies: the hardcoded ratios on the bent base
\* frequency, damping and weight kept
MV_updateFrequencies(modes, midi_note, bend) ==
    LET base_freq == MV_getBaseFrequency(midi_note, bend)
        m0 == MV_setMode(modes, 0, base_freq * HardcodedRatio[0],
                         modes[0].gamma, modes[0].weight)
        m1 == MV_setMode(m0, 1, base_freq * HardcodedRatio[1],
                         m0[1].gamma, m0[1].weight)
        m2 == MV_setMode(m1, 2, base_freq * HardcodedRatio[2],
                         m1[2].gamma, m1[2].weight)
    IN  MV_setMode(m2, 3, base_freq * HardcodedRatio[3],
                   m2[3].gamma, m2[3].weight)

MV_updateModal(v) ==
    IF v.state = "Inactive" THEN v
    ELSE LET s == [v EXCEPT !.amp = modal_node_step(v.amp)]
             u == MV_updateState(s)
         IN  [u EXCEPT !.age = Min(MaxAge, u.age + 1)]

\* 2^32 modulo m (uint32_t wrap-around), without leaving 32-bit arithmetic
Pow32Mod(m) == ((65536 % m) * (65536 % m)) % m

\* the update loop of ModalVoice::renderAudio.  When an update deactivates
\* the voice, reset() zeroes samples_since_update_ and the subtraction wraps
\* (uint32_t); the remaining iterations change nothing but that counter,
\* which ends at (samples_since_update_ - samples_per_update_ + 2^32)
\* modulo samples_per_update_.
RECURSIVE MV_updateLoop(_)
MV_updateLoop(v) ==
    IF v.samples_since_update >= SamplesPerUpdate
    THEN LET u == MV_updateModal(v)
         IN  IF u.state = "Inactive"
             THEN [u EXCEPT !.samples_since_update =
                     (u.samples_since_update + Pow32Mod(SamplesPerUpdate))
                        % SamplesPerUpdate]
             ELSE MV_updateLoop([u EXCEPT !.samples_since_update =
                                   u.samples_since_update - SamplesPerUpdate])
    ELSE v

\* ModalVoice::renderAudio: the voice after rendering num_frames
MV_renderAudio(v, num_frames) ==
    IF v.state = "Inactive" THEN v
    ELSE MV_updateLoop([v EXCEPT !.samples_since_update =
                                    v.samples_since_update + num_frames])

\* level of the frames a voice writes in one renderAudio call
MV_level(v) == IF v.state = "Inactive" THEN 0 ELSE v.amp

\* ModalVoice::applyCouplingMode0 (additive, does not look at state_)
MV_applyCoupling(v, input) == [v EXCEPT !.amp = Min(MaxAmp, v.amp + input)]

\* ------------------------------------------------------------------------
\* State
\* ------------------------------------------------------------------------
VARIABLES
    initialized,          \* SynthEngine::initialized_
    controlRateCounter,   \* SynthEngine::controlRateCounter_
    params,               \* bodySize_, material_, excite_, morph_, mix_
    nodes,                \* NodeManager::nodes_
    character_ids,        \* NodeManager::node_character_ids_
    current_characters,   \* NodeManager::current_characters_
    mode_shapes,          \* modes[k].params.shape of every node
    note_to_node,         \* NodeManager::note_to_node_
    active_node_count,    \* NodeManager::active_node_count_
    routing_mode,         \* NodeManager::routing_mode_
    multi_excite_mode,    \* NodeManager::multi_excite_mode_
    nm_initialized,       \* NodeManager::initialized_
    pitch_bend,           \* NodeManager::pitch_bend_
    queue,                \* EventQueue::events_[0 .. count_-1]
    dropped,              \* a push was rejected since the last clear
    lastPush,             \* return value of the last push
    accepted,             \* the host's events accepted since the last clear
    note_is_on,           \* ModalEffectEngine::note_is_on
    current_note,         \* ModalEffectEngine::current_note
    trace,                \* schedule of the render call of this block
    blockFrames,          \* frame count of that render call, 0 before it
    lastCall,             \* the last structural call (setNodeCount, reset)
    paramCall,            \* the last parameter call and its value; for a
                          \* get, also the value of the set it follows
    buffers,              \* ModalEffectEngine's and NodeManager's allocations
    lastOutput,           \* what the last render or process call wrote
    frame_counter,        \* the static frame_counter of PitchDetector::process
    processors,           \* the ResonantBodyProcessor instances
    alone,                \* each processor in the run that uses no other one
    threads,              \* the call each thread of the audio unit is inside
    signal                \* ModalEffectEngine::last_energy, smoothed_energy

engineVars == <<initialized, controlRateCounter, params, nodes, character_ids,
                current_characters, mode_shapes,
                note_to_node, active_node_count, routing_mode,
                multi_excite_mode, nm_initialized, pitch_bend>>
queueVars == <<queue, dropped, lastPush, accepted>>
fxVars == <<note_is_on, current_note>>
pdVars == <<frame_counter, processors, alone>>
dspVars == <<pdVars, signal>>
bridgeVars == <<paramCall, buffers, lastOutput, dspVars, threads>>

\* ------------------------------------------------------------------------
\* Characters (NodeCharacter.cpp)
\* ------------------------------------------------------------------------
\* personality of the built-in character with the given id
CharacterPersonality(id) ==
    IF id = 4 THEN "SelfOscillator" ELSE "Resonator"

\* a NodeCharacter, in hundredths: mode i of the source is position i + 1
Character(freq, damp, weight, shape, personality, strength, ms, gain) ==
    [mode_freq_mult |-> freq, mode_damping |-> damp,
     mode_weight |-> weight, mode_shape |-> shape,
     personality |-> personality, poke_strength |-> strength,
     poke_duration_ms |-> ms, coupling_response_gain |-> gain]

AllSine == <<"SINE", "SINE", "SINE", "SINE">>

\* the numbers of the 15 built-in characters in the order of
\* CHARACTER_LIBRARY: mode_freq_mult, mode_damping, mode_weight,
\* poke_strength, poke_duration_ms, coupling_response_gain
LibraryValues ==
        0  :> <<<<100, 200, 300, 500>>, <<30, 50, 80, 120>>, <<100, 80, 60, 40>>, 70, 1500, 80>> @@
        1  :> <<<<100, 150, 220, 310>>, <<80, 120, 180, 250>>, <<80, 40, 20, 10>>, 40, 800, 50>> @@
        2  :> <<<<100, 276, 540, 893>>, <<40, 60, 50, 70>>, <<70, 90, 100, 80>>, 60, 500, 100>> @@
        3  :> <<<<100, 201, 403, 1120>>, <<50, 60, 70, 40>>, <<60, 70, 60, 90>>, 50, 1200, 90>> @@
        4  :> <<<<100, 100, 150, 200>>, <<10, 15, 20, 30>>, <<100, 90, 70, 50>>, 30, 2000, 120>> @@
        5  :> <<<<100, 314, 587, 823>>, <<200, 250, 300, 350>>, <<60, 80, 100, 70>>, 90, 500, 100>> @@
        6  :> <<<<100, 200, 300, 400>>, <<20, 25, 30, 40>>, <<100, 85, 70, 50>>, 30, 3000, 70>> @@
        7  :> <<<<100, 250, 420, 670>>, <<300, 350, 400, 450>>, <<100, 60, 40, 20>>, 100, 300, 80>> @@
        8  :> <<<<100, 200, 300, 400>>, <<60, 70, 80, 100>>, <<100, 90, 80, 70>>, 75, 1200, 100>> @@
        9  :> <<<<50, 100, 150, 200>>, <<50, 60, 80, 100>>, <<100, 90, 60, 40>>, 60, 2000, 90>> @@
        10 :> <<<<100, 200, 300, 400>>, <<100, 100, 100, 100>>, <<100, 80, 60, 40>>, 65, 1500, 100>> @@
        11 :> <<<<100, 199, 298, 403>>, <<70, 70, 80, 90>>, <<100, 85, 70, 50>>, 50, 1800, 85>> @@
        12 :> <<<<100, 276, 418, 594>>, <<150, 180, 220, 250>>, <<100, 70, 50, 30>>, 85, 800, 90>> @@
        13 :> <<<<300, 450, 620, 870>>, <<90, 100, 110, 130>>, <<70, 80, 100, 80>>, 40, 1400, 70>> @@
        14 :> <<<<100, 237, 386, 519>>, <<40, 50, 60, 70>>, <<80, 100, 90, 70>>, 70, 3500, 110>>

\* CHARACTER_LIBRARY[id]
CHARACTER_LIBRARY(id) ==
    LET v == LibraryValues[id]
    IN  Character(v[1], v[2], v[3], AllSine, CharacterPersonality(id),
                  v[4], v[5], v[6])

\* a null character pointer
NullCharacter == [null |-> TRUE]

\* current_characters_[i] between the constructor and the first
\* setNodeCharacter: not initialized, and not read before initialize() has
\* assigned it
UnsetCharacter == [unset |-> TRUE]

\* validateCharacter
validateCharacter(character) ==
    /\ character # NullCharacter
    /\ \A i \in 1 .. 4 :
          /\ ~(character.mode_freq_mult[i] < 10
               \/ character.mode_freq_mult[i] > 2000)
          /\ ~(character.mode_damping[i] < 1 \/ character.mode_damping[i] > 1000)
          /\ ~(character.mode_weight[i] < 0 \/ character.mode_weight[i] > 100)
    /\ ~(character.poke_strength < 0 \/ character.poke_strength > 100)
    /\ ~(character.poke_duration_ms < 100 \/ character.poke_duration_ms > 5000)
    /\ ~(character.coupling_response_gain < 10
         \/ character.coupling_response_gain > 200)

\* ------------------------------------------------------------------------
\* NodeManager, as functions of the engine record
\* ------------------------------------------------------------------------
Engine ==
    [ctr |-> controlRateCounter, params |-> params, nodes |-> nodes,
     character_ids |-> character_ids,
     current_characters |-> current_characters, mode_shapes |-> mode_shapes,
     note_to_node |-> note_to_node,
     active_node_count |-> active_node_count, routing_mode |-> routing_mode,
     multi_excite_mode |-> multi_excite_mode,
     nm_initialized |-> nm_initialized, pitch_bend |-> pitch_bend]

\* a routing that sends an all-nodes note to every slot of the node array
routeNoteToNodes_allSlots(E, midi_note, midi_channel) ==
    CASE E.routing_mode = "MidiChannel" ->
           << midi_channel % E.active_node_count >>
      [] E.routing_mode = "AllNodes" ->
           [k \in 1 .. NUM_NETWORK_NODES |-> k - 1]
      [] OTHER -> << 0 >>

\* NodeManager::routeNoteToNodes: the target nodes, in order
routeNoteToNodes(E, midi_note, midi_channel) ==
    CASE E.routing_mode = "MidiChannel" ->
           << midi_channel % E.active_node_count >>
      [] E.routing_mode = "AllNodes" ->
           [k \in 1 .. E.active_node_count |-> k - 1]
      [] OTHER -> << 0 >>

\* NodeManager::exciteNode
exciteNode(ns, characters, node_idx, midi_note, velocity) ==
    IF node_idx >= NUM_NETWORK_NODES THEN ns
    ELSE [ns EXCEPT ![node_idx] =
            [MV_noteOn(ns[node_idx], midi_note, velocity)
               EXCEPT !.personality = characters[node_idx].personality]]

RECURSIVE exciteTargets(_, _, _, _, _, _)
exciteTargets(ns, E, targets, k, midi_note, velocity) ==
    IF k > Len(targets) THEN ns
    ELSE LET node_idx == targets[k]
             n1 == IF E.multi_excite_mode = "ReTrigger" /\ isActive(ns[node_idx])
                   THEN [ns EXCEPT ![node_idx] = MV_reset(ns[node_idx])]
                   ELSE ns
         IN  exciteTargets(exciteNode(n1, E.current_characters, node_idx,
                                      midi_note, velocity),
                           E, targets, k + 1, midi_note, velocity)

\* NodeManager::noteOn
NM_noteOn(E, midi_note, velocity, midi_channel) ==
    IF ~E.nm_initialized \/ midi_note > 127 THEN E
    ELSE LET targets == routeNoteToNodes(E, midi_note, midi_channel)
         IN  [E EXCEPT
                !.nodes = exciteTargets(E.nodes, E, targets, 1,
                                        midi_note, velocity),
                !.note_to_node =
                    IF Len(targets) > 0
                    THEN [E.note_to_node EXCEPT ![midi_note] = targets[1]]
                    ELSE E.note_to_node]

\* a noteOff that silences the node at once
NM_noteOff_silence(E, midi_note) ==
    IF midi_note > 127 THEN E
    ELSE LET node_idx == E.note_to_node[midi_note]
         IN  IF node_idx < NUM_NETWORK_NODES
             THEN [E EXCEPT
                     !.nodes[node_idx] = MV_reset(E.nodes[node_idx]),
                     !.note_to_node[midi_note] = NoNode]
             ELSE E

\* a noteOff that masks the note number to seven bits instead of rejecting it
NM_noteOff_masked(E, midi_note) ==
    LET note == midi_note % 128
    IN  IF note \notin Notes THEN E
        ELSE LET node_idx == E.note_to_node[note]
             IN  IF node_idx < NUM_NETWORK_NODES
                 THEN [E EXCEPT
                         !.nodes[node_idx] = MV_noteOff(E.nodes[node_idx]),
                         !.note_to_node[note] = NoNode]
                 ELSE E

\* NodeManager::noteOff
NM_noteOff(E, midi_note) ==
    IF midi_note > 127 THEN E
    ELSE LET node_idx == E.note_to_node[midi_note]
         IN  IF node_idx < NUM_NETWORK_NODES
             THEN [E EXCEPT
                     !.nodes[node_idx] = MV_noteOff(E.nodes[node_idx]),
                     !.note_to_node[midi_note] = NoNode]
             ELSE E

\* an allNotesOff that releases the nodes but keeps the note mapping
NM_allNotesOff_keepMapping(E) ==
    [E EXCEPT
       !.nodes = [i \in NodeIdx |->
                    IF isActive(E.nodes[i]) THEN MV_noteOff(E.nodes[i])
                    ELSE E.nodes[i]]]

\* an allNotesOff that releases only the nodes some note is mapped to
NM_allNotesOff_mappedOnly(E) ==
    [E EXCEPT
       !.nodes = [i \in NodeIdx |->
                    IF \E n \in DOMAIN E.note_to_node : E.note_to_node[n] = i
                    THEN MV_noteOff(E.nodes[i]) ELSE E.nodes[i]],
       !.note_to_node = [n \in DOMAIN E.note_to_node |-> NoNode]]

\* NodeManager::allNotesOff
NM_allNotesOff(E) ==
    [E EXCEPT
       !.nodes = [i \in NodeIdx |->
                    IF isActive(E.nodes[i]) THEN MV_noteOff(E.nodes[i])
                    ELSE E.nodes[i]],
       !.note_to_node = [n \in DOMAIN E.note_to_node |-> NoNode]]

\* a setNodeCount that does not reset the nodes beyond the new count
NM_setNodeCount_noReset(E, count) ==
    LET c == IF count < 1 THEN 1
             ELSE IF count > NUM_NETWORK_NODES THEN NUM_NETWORK_NODES
             ELSE count
    IN  [NM_allNotesOff(E) EXCEPT !.active_node_count = c]

\* NodeManager::setNodeCount (count is a uint8_t)
NM_setNodeCount(E, count) ==
    LET c  == IF count < 1 THEN 1
              ELSE IF count > NUM_NETWORK_NODES THEN NUM_NETWORK_NODES
              ELSE count
        E1 == NM_allNotesOff(E)
    IN  [E1 EXCEPT
           !.nodes = [i \in NodeIdx |->
                        IF i >= c THEN MV_reset(E1.nodes[i]) ELSE E1.nodes[i]],
           !.active_node_count = c]

\* NodeManager::setPitchBend (mode frequencies are not part of the state)
NM_setPitchBend(E, bend_amount) == [E EXCEPT !.pitch_bend = bend_amount]

\* number of characters of the library (NodeCharacter.h)
NUM_BUILTIN_CHARACTERS == 15

\* NodeManager::applyCharacterToNode
applyCharacterToNode(E, node_idx, character) ==
    IF ~E.nm_initialized THEN E
    ELSE [E EXCEPT
            !.nodes[node_idx].personality = character.personality,
            !.mode_shapes[node_idx] = character.mode_shape,
            !.current_characters[node_idx] = character]

\* NodeManager::setNodeCharacter
NM_setNodeCharacter(E, node_idx, character_id) ==
    IF node_idx >= NUM_NETWORK_NODES \/ character_id >= NUM_BUILTIN_CHARACTERS
    THEN E
    ELSE LET character == CHARACTER_LIBRARY(character_id)
         IN  IF ~validateCharacter(character) THEN E
             ELSE applyCharacterToNode(
                     [E EXCEPT !.character_ids[node_idx] = character_id,
                               !.current_characters[node_idx] = character],
                     node_idx, character)

\* a setNodeCharacterCustom that stores the character before validating it
NM_setNodeCharacterCustom_storeFirst(E, node_idx, character) ==
    IF node_idx >= NUM_NETWORK_NODES \/ character = NullCharacter THEN E
    ELSE LET stored == [E EXCEPT !.character_ids[node_idx] = 255,
                                 !.current_characters[node_idx] = character]
         IN  IF ~validateCharacter(character) THEN stored
             ELSE applyCharacterToNode(stored, node_idx, character)

\* NodeManager::setNodeCharacterCustom
NM_setNodeCharacterCustom(E, node_idx, character) ==
    IF node_idx >= NUM_NETWORK_NODES THEN E
    ELSE IF ~validateCharacter(character) THEN E
    ELSE applyCharacterToNode(
            [E EXCEPT !.character_ids[node_idx] = 255,
                      !.current_characters[node_idx] = character],
            node_idx, character)

\* NodeManager::setRoutingMode
NM_setRoutingMode(E, mode) == [E EXCEPT !.routing_mode = mode]

RECURSIVE NM_initializeLoop(_, _)
\* the loop of NodeManager::initialize from node i on: every node gets the
\* character stored for it (applied only once initialized_ is set)
NM_initializeLoop(E, i) ==
    IF i >= NUM_NETWORK_NODES THEN E
    ELSE NM_initializeLoop(NM_setNodeCharacter(E, i, E.character_ids[i]), i + 1)

\* NodeManager::initialize
NM_initialize(E) == [NM_initializeLoop(E, 0) EXCEPT !.nm_initialized = TRUE]

\* NodeManager::updateNodes
NM_updateNodes(E) ==
    IF ~E.nm_initialized THEN E
    ELSE [E EXCEPT !.nodes =
            [i \in NodeIdx |->
               IF i < E.active_node_count /\ isActive(E.nodes[i])
               THEN MV_updateModal(E.nodes[i]) ELSE E.nodes[i]]]

\* the nodes NodeManager::renderAudio mixes into the output
NM_mixed(E) ==
    IF ~E.nm_initialized THEN {}
    ELSE {i \in NodeIdx : i < E.active_node_count /\ isActive(E.nodes[i])}

\* NodeManager::renderAudio: the node array after the call
NM_renderAudio(E, num_frames) ==
    [E EXCEPT !.nodes =
       [i \in NodeIdx |->
          IF i \in NM_mixed(E) THEN MV_renderAudio(E.nodes[i], num_frames)
          ELSE E.nodes[i]]]

RECURSIVE SumLevels(_, _)
SumLevels(ns, S) ==
    IF S = {} THEN 0
    ELSE LET i == CHOOSE x \in S : TRUE
         IN  MV_level(ns[i]) + SumLevels(ns, S \ {i})

\* ------------------------------------------------------------------------
\* TopologyEngine (documented behaviour): ring over the nodes it is given
\* ------------------------------------------------------------------------
RingNeighbours(i, count) ==
    {(i + 1) % count, (i + count - 1) % count} \ {i}

RECURSIVE MaxAmpOf(_, _)
MaxAmpOf(ns, S) ==
    IF S = {} THEN 0
    ELSE LET j == CHOOSE x \in S : TRUE
         IN  Max(ns[j].amp, MaxAmpOf(ns, S \ {j}))

\* coupling contribution of the neighbours' mode-0 state into node i
CouplingInput(ns, i, count) ==
    LET m == MaxAmpOf(ns, RingNeighbours(i, count))
    IN  IF m > ns[i].amp THEN (m - ns[i].amp + 1) \div 2 ELSE 0

\* TopologyEngine::updateCoupling / updateCouplingComplex(nodes, count)
TE_updateCoupling(ns, count) ==
    [i \in NodeIdx |->
       IF i < count THEN MV_applyCoupling(ns[i], CouplingInput(ns, i, count))
       ELSE ns[i]]

\* ------------------------------------------------------------------------
\* SynthEngine
\* ------------------------------------------------------------------------
ParamIds == 0 .. 4

\* the parameters as SynthEngine::SynthEngine sets them, in tenths:
\* bodySize, material, excite 0.5, morph 0, mix 0.5
DefaultParams == [id \in ParamIds |-> IF id = 3 THEN 0 ELSE 5]

\* a setParameter with kParam_Morph and kParam_Mix exchanged
setParameter_exchanged(E, paramId, value) ==
    CASE paramId = 3 -> [E EXCEPT !.params[4] = value]
      [] paramId = 4 -> [E EXCEPT !.params[3] = value]
      [] paramId \in ParamIds -> [E EXCEPT !.params[paramId] = value]
      [] OTHER -> E

\* SynthEngine::setParameter
setParameter(E, paramId, value) ==
    IF paramId \in ParamIds THEN [E EXCEPT !.params[paramId] = value] ELSE E

\* SynthEngine::getParameter
getParameter(E, paramId) ==
    IF paramId \in ParamIds THEN E.params[paramId] ELSE 0

\* number of nodes SynthEngine::updateControlRate hands to the coupling update
CouplingCount == NUM_NETWORK_NODES

\* SynthEngine::updateControlRate
updateControlRate(E) ==
    LET E1 == NM_updateNodes(E)
    IN  [E1 EXCEPT !.nodes = TE_updateCoupling(E1.nodes, CouplingCount)]

\* SynthEngine::renderSlice: the engine afterwards and the record of the slice
renderSlice(E, startFrame, numFrames) ==
    LET c    == E.ctr + numFrames
        fire == c >= CONTROL_RATE_SAMPLES
        E1   == IF fire THEN [updateControlRate(E) EXCEPT !.ctr = 0]
                ELSE [E EXCEPT !.ctr = c]
        E2   == NM_renderAudio(E1, numFrames)
    IN  [eng   |-> E2,
         entry |-> [op |-> "slice", start |-> startFrame, len |-> numFrames,
                    update |-> fire,
                    coupled |-> IF fire THEN 0 .. (CouplingCount - 1) ELSE {},
                    mixed |-> NM_mixed(E1),
                    level |-> SumLevels(E2.nodes, NM_mixed(E1))]]

RECURSIVE SE_defaultCharacters(_, _)
\* the loop of SynthEngine::prepare from node i on: node i gets character i
SE_defaultCharacters(E, i) ==
    IF i >= 5 THEN E
    ELSE SE_defaultCharacters(NM_setNodeCharacter(E, i, i), i + 1)

\* a prepare that also puts the parameters back to their defaults
SE_prepare_defaultParams(E) ==
    [SE_defaultCharacters(NM_initialize(E), 0) EXCEPT
        !.params = DefaultParams]

\* SynthEngine::prepare: the engine record afterwards
SE_prepare(E) == SE_defaultCharacters(NM_initialize(E), 0)

\* a reset that also puts the parameters back to their defaults
SE_reset_defaults(E) ==
    [NM_allNotesOff(E) EXCEPT !.ctr = 0, !.params = DefaultParams]

\* SynthEngine::reset on an initialized engine
SE_reset(E) == [NM_allNotesOff(E) EXCEPT !.ctr = 0]

\* SynthEngine::processEvent
processEvent(E, event) ==
    CASE event.type = "NoteOn" ->
           NM_noteOn(E, event.note, event.velocity, event.channel)
      [] event.type = "NoteOff" -> NM_noteOff(E, event.note)
      [] event.type = "PitchBend" -> NM_setPitchBend(E, event.value)
      [] event.type = "CC" -> E
      [] event.type = "Parameter" -> setParameter(E, event.paramId, event.value)
      [] OTHER -> E

\* a clamp that forgets the upper end of the block
ClampOffset_noUpper(offset, numFrames) == IF offset < 0 THEN 0 ELSE offset

\* the offset clamp of SynthEngine::render
ClampOffset(offset, numFrames) ==
    IF offset < 0 THEN 0 ELSE IF offset > numFrames THEN numFrames ELSE offset

\* the event loop and the tail slice of SynthEngine::render
RECURSIVE renderLoop(_, _, _, _, _, _)
renderLoop(E, events, i, lastOffset, numFrames, tr) ==
    IF i > Len(events)
    THEN IF lastOffset < numFrames
         THEN LET r == renderSlice(E, lastOffset, numFrames - lastOffset)
              IN  [eng |-> r.eng, trace |-> Append(tr, r.entry)]
         ELSE [eng |-> E, trace |-> tr]
    ELSE LET offset == ClampOffset(events[i].sampleOffset, numFrames)
             sl  == offset > lastOffset
             r   == renderSlice(E, lastOffset, offset - lastOffset)
             E1  == IF sl THEN r.eng ELSE E
             tr1 == IF sl THEN Append(tr, r.entry) ELSE tr
         IN  renderLoop(processEvent(E1, events[i]), events, i + 1, offset,
                        numFrames,
                        Append(tr1, [op |-> "event", index |-> i,
                                     event |-> events[i]]))

\* SynthEngine::render on an initialized engine
render(E, events, numFrames) == renderLoop(E, events, 1, 0, numFrames, <<>>)

\* the schedule of a render call: its slices and event applications, in order
Schedule(tr) ==
    [k \in 1 .. Len(tr) |->
       IF tr[k].op = "slice"
       THEN [op |-> "slice", start |-> tr[k].start, len |-> tr[k].len]
       ELSE [op |-> "event", index |-> tr[k].index]]

\* ------------------------------------------------------------------------
\* EventQueue and the events offered to it
\* ------------------------------------------------------------------------
NoteOnEvent(offset, note, velocity, channel) ==
    [type |-> "NoteOn", sampleOffset |-> offset, note |-> note,
     velocity |-> velocity, channel |-> channel, paramId |-> 0, value |-> 0]

NoteOffEvent(offset, note) ==
    [type |-> "NoteOff", sampleOffset |-> offset, note |-> note,
     velocity |-> 0, channel |-> 0, paramId |-> 0, value |-> 0]

CCEvent(offset) ==
    [type |-> "CC", sampleOffset |-> offset, note |-> 0,
     velocity |-> 0, channel |-> 0, paramId |-> 0, value |-> 0]

\* block lengths the host asks for
FrameCounts == {2, MaxFrames}

HostEvents ==
    {NoteOnEvent(-1, 60, 1, 0), CCEvent(1),
     NoteOffEvent(3, 60), CCEvent(MaxFrames + 2)}

\* a push whose capacity test is off by one
EQ_push_offByOne(q, event) ==
    IF Len(q) > MAX_EVENTS THEN q ELSE Append(q, event)

\* EventQueue::push: the queue afterwards
EQ_push(q, event) == IF Len(q) >= MAX_EVENTS THEN q ELSE Append(q, event)

\* EventQueue::push: the return value
EQ_pushResult(q, event) == ~(Len(q) >= MAX_EVENTS)

\* a clear that leaves the events where they are
EQ_clear_keep(q) == q

\* EventQueue::clear
EQ_clear(q) == <<>>

\* the events modal_attractors_engine_process pushes before it renders:
\* on an onset a note-off of the sounding note and a note-on of the target
\* note, on low energy an auto note-off, all with sample offset 0
FX_detect(q, on, cur, onset, quiet, target_note, velocity) ==
    LET q1   == IF onset /\ on THEN EQ_push(q, NoteOffEvent(0, cur)) ELSE q
        q2   == IF onset
                THEN EQ_push(q1, NoteOnEvent(0, target_note, velocity, 0))
                ELSE q1
        cur2 == IF onset THEN target_note ELSE cur
        on2  == IF onset THEN TRUE ELSE on
        off  == on2 /\ quiet
        q3   == IF off THEN EQ_push(q2, NoteOffEvent(0, cur2)) ELSE q2
    IN  [queue |-> q3, note_is_on |-> IF off THEN FALSE ELSE on2,
         current_note |-> cur2]

\* ------------------------------------------------------------------------
\* Initial state: after SynthEngine::SynthEngine and NodeManager::NodeManager
\* ------------------------------------------------------------------------
\* ------------------------------------------------------------------------
\* VoiceAllocator
\* ------------------------------------------------------------------------
VARIABLES
    voices,               \* VoiceAllocator::voices_
    note_to_voice,        \* VoiceAllocator::note_to_voice_
    va_active_node_count, \* VoiceAllocator::active_node_count_
    va_initialized,       \* VoiceAllocator::initialized_
    vaCall,               \* the last noteOn and the pool it found
    va_modes,             \* node_.modes of each voice of the pool
    mode_params,          \* VoiceAllocator::mode_params_
    va_pitch_bend         \* VoiceAllocator::pitch_bend_

vaVars == <<voices, note_to_voice, va_active_node_count, va_initialized, vaCall,
           va_modes, mode_params, va_pitch_bend>>

VoiceIdx == 0 .. (MaxPolyphony - 1)
NoVoice == -1

\* ModalVoice::getAge
getAge(v) == v.age

\* the allocator as a value
Allocator ==
    [voices |-> voices, note_to_voice |-> note_to_voice,
     active_node_count |-> va_active_node_count,
     initialized |-> va_initialized,
     modes |-> va_modes, mode_params |-> mode_params,
     pitch_bend |-> va_pitch_bend]

\* mode_params_ as set by VoiceAllocator::VoiceAllocator: multipliers 1, 2,
\* 3 and 4.5 in hundredths, damping and weight in tenths
DefaultModeParams ==
    [k \in ModeIdx |->
       CASE k = 0 -> [freq_multiplier |-> 100, damping |-> 10, weight |-> 10]
         [] k = 1 -> [freq_multiplier |-> 200, damping |-> 12, weight |-> 8]
         [] k = 2 -> [freq_multiplier |-> 300, damping |-> 15, weight |-> 6]
         [] OTHER -> [freq_multiplier |-> 450, damping |-> 20, weight |-> 4]]

\* VoiceAllocator::initialize with ModalVoice::initialize on every voice
VA_initialize(A) ==
    [A EXCEPT !.initialized = TRUE,
              !.modes = [i \in VoiceIdx |->
                           MV_initializeModes(A.modes[i], A.voices[i].midi_note)]]

RECURSIVE applyModeLoop(_, _, _, _)
applyModeLoop(modes, base_freq, mp, mode_idx) ==
    IF mode_idx >= 4 THEN modes
    ELSE applyModeLoop(
            MV_setMode(modes, mode_idx, base_freq * mp[mode_idx].freq_multiplier,
                       mp[mode_idx].damping, mp[mode_idx].weight),
            base_freq, mp, mode_idx + 1)

\* mode parameters applied relative to middle C whatever the note
applyModeParams_middleC(modes, midi_note, bend, mp) ==
    applyModeLoop(modes, MV_getBaseFrequency(60, bend), mp, 0)

\* the loop of VoiceAllocator::noteOn that applies mode_params_ to the
\* triggered voice
applyModeParams(modes, midi_note, bend, mp) ==
    applyModeLoop(modes, MV_getBaseFrequency(midi_note, bend), mp, 0)

\* the modes of the voice VoiceAllocator::noteOn triggers: ModalVoice::noteOn
\* and setPitchBend call updateFrequencies, then mode_params_ is applied
triggerModes(modes, midi_note, bend, mp) ==
    LET m1 == MV_updateFrequencies(modes, midi_note, bend)
        m2 == MV_updateFrequencies(m1, midi_note, bend)
    IN  applyModeParams(m2, midi_note, bend, mp)

\* VoiceAllocator::findFreeVoice: first inactive voice within the active count
findFreeVoice(A) ==
    LET free == {i \in VoiceIdx : i < A.active_node_count /\ ~isActive(A.voices[i])}
    IN  IF free = {} THEN NoVoice
        ELSE CHOOSE i \in free : \A j \in free : i <= j

RECURSIVE stealScan(_, _, _, _)
\* the scan of stealOldestVoice from voice i on: index of the voice kept
stealScan(A, i, max_age, oldest) ==
    IF i >= A.active_node_count THEN oldest
    ELSE IF isActive(A.voices[i]) /\ getAge(A.voices[i]) > max_age
         THEN stealScan(A, i + 1, getAge(A.voices[i]), i)
         ELSE stealScan(A, i + 1, max_age, oldest)

\* a scan that keeps the first active voice whatever its age
stealOldestVoice_first(A) ==
    LET busy == {i \in VoiceIdx : i < A.active_node_count /\ isActive(A.voices[i])}
        oldest == IF busy = {} THEN NoVoice
                  ELSE CHOOSE i \in busy : \A j \in busy : i <= j
    IN  [alloc |-> IF oldest = NoVoice THEN A
                   ELSE [A EXCEPT !.voices[oldest] = MV_reset(A.voices[oldest])],
         voice |-> oldest]

\* VoiceAllocator::stealOldestVoice: the allocator afterwards and the voice
stealOldestVoice(A) ==
    LET oldest == stealScan(A, 0, 0, NoVoice)
    IN  [alloc |-> IF oldest = NoVoice THEN A
                   ELSE [A EXCEPT !.voices[oldest] = MV_reset(A.voices[oldest])],
         voice |-> oldest]

\* a noteOn that never looks at the note mapping
VA_noteOn_alwaysAllocate(A, midi_note, velocity) ==
    IF ~A.initialized \/ midi_note > 127 THEN A
    ELSE LET free == findFreeVoice(A)
             st   == IF free = NoVoice THEN stealOldestVoice(A)
                     ELSE [alloc |-> A, voice |-> free]
         IN  IF st.voice = NoVoice THEN st.alloc
             ELSE [st.alloc EXCEPT
                     !.voices[st.voice] =
                        MV_noteOn(st.alloc.voices[st.voice], midi_note, velocity),
                     !.note_to_voice[midi_note] = st.voice]

\* VoiceAllocator::noteOn
VA_noteOn(A, midi_note, velocity) ==
    IF ~A.initialized \/ midi_note > 127 THEN A
    ELSE IF A.note_to_voice[midi_note] >= 0
    THEN LET existing_voice == A.note_to_voice[midi_note]
         IN  [A EXCEPT !.voices[existing_voice] =
                MV_noteOn(A.voices[existing_voice], midi_note, velocity),
                       !.modes[existing_voice] =
                          triggerModes(A.modes[existing_voice], midi_note,
                                       A.pitch_bend, A.mode_params)]
    ELSE LET free == findFreeVoice(A)
             st   == IF free = NoVoice THEN stealOldestVoice(A)
                     ELSE [alloc |-> A, voice |-> free]
         IN  IF st.voice = NoVoice THEN st.alloc
             ELSE [st.alloc EXCEPT
                     !.voices[st.voice] =
                        MV_noteOn(st.alloc.voices[st.voice], midi_note, velocity),
                     !.modes[st.voice] =
                        triggerModes(st.alloc.modes[st.voice], midi_note,
                                     A.pitch_bend, A.mode_params),
                     !.note_to_voice[midi_note] = st.voice]

\* VoiceAllocator::setMode
VA_setMode(A, mode_idx, freq_multiplier, damping, weight) ==
    IF mode_idx >= 4 THEN A
    ELSE [A EXCEPT
            !.mode_params[mode_idx] =
               [freq_multiplier |-> freq_multiplier, damping |-> damping,
                weight |-> weight],
            !.modes = [i \in VoiceIdx |->
                         IF isActive(A.voices[i])
                         THEN MV_setMode(A.modes[i], mode_idx,
                                 MV_getBaseFrequency(A.voices[i].midi_note,
                                                     A.pitch_bend)
                                    * freq_multiplier,
                                 damping, weight)
                         ELSE A.modes[i]]]

\* VoiceAllocator::noteOff
VA_noteOff(A, midi_note) ==
    IF midi_note > 127 THEN A
    ELSE LET voice_idx == A.note_to_voice[midi_note]
         IN  IF voice_idx >= 0 /\ voice_idx < MaxPolyphony
             THEN [A EXCEPT
                     !.voices[voice_idx] = MV_noteOff(A.voices[voice_idx]),
                     !.note_to_voice[midi_note] = NoVoice]
             ELSE A

\* VoiceAllocator::allNotesOff
VA_allNotesOff(A) ==
    [A EXCEPT
       !.voices = [i \in VoiceIdx |->
                     IF isActive(A.voices[i]) THEN MV_noteOff(A.voices[i])
                     ELSE A.voices[i]],
       !.note_to_voice = [n \in Notes |-> NoVoice]]

\* VoiceAllocator::setPitchBend with ModalVoice::setPitchBend on every
\* active voice
VA_setPitchBend(A, bend_amount) ==
    [A EXCEPT
       !.pitch_bend = bend_amount,
       !.modes = [i \in VoiceIdx |->
                    IF isActive(A.voices[i])
                    THEN MV_updateFrequencies(A.modes[i], A.voices[i].midi_note,
                                              bend_amount)
                    ELSE A.modes[i]]]

\* VoiceAllocator::setNodeCount
VA_setNodeCount(A, node_count) ==
    LET c == IF node_count < 1 THEN 1
             ELSE IF node_count > MaxPolyphony THEN MaxPolyphony
             ELSE node_count
        cut == IF c < A.active_node_count
               THEN {i \in VoiceIdx : i >= c /\ isActive(A.voices[i])}
               ELSE {}
    IN  [A EXCEPT
           !.voices = [i \in VoiceIdx |->
                         IF i \in cut THEN MV_reset(A.voices[i]) ELSE A.voices[i]],
           !.note_to_voice = [n \in Notes |->
                                IF A.note_to_voice[n] \in cut THEN NoVoice
                                ELSE A.note_to_voice[n]],
           !.active_node_count = c]

\* VoiceAllocator::updateVoices
VA_updateVoices(A) ==
    IF ~A.initialized THEN A
    ELSE [A EXCEPT !.voices = [i \in VoiceIdx |->
                                 IF isActive(A.voices[i])
                                 THEN MV_updateModal(A.voices[i])
                                 ELSE A.voices[i]]]

\* VoiceAllocator::renderAudio
VA_renderAudio(A, num_frames) ==
    IF ~A.initialized THEN A
    ELSE [A EXCEPT !.voices = [i \in VoiceIdx |->
                                 IF isActive(A.voices[i])
                                 THEN MV_renderAudio(A.voices[i], num_frames)
                                 ELSE A.voices[i]]]

\* no parameter call was the last call
NoParamCall == [op |-> "none", id |-> 0, value |-> 0, pending |-> -1]

\* the ModalEffectEngine struct before modal_attractors_engine_init and after
\* modal_attractors_engine_cleanup: every pointer null, every size 0. leaked
\* counts the buffers that were allocated, never released and are no longer
\* pointed to; freedTwice records a release of a buffer already released
NoBuffers ==
    [synth_engine |-> FALSE, wet |-> FALSE, pitch_buffer |-> FALSE,
     temp_buffer |-> FALSE, buffer_size |-> 0, sample_rate |-> 0,
     leaked |-> 0, freedTwice |-> FALSE]

NoCall == [op |-> "none", arg |-> 0, before |-> {}, energized |-> {}]

\* the ResonantBodyProcessor instances of the process
Instances == {0, 1}

\* ResonantBodyProcessor after its constructor and initialize: morph_ is 0,
\* no pitch estimate has been made, no process call has run
NewProcessor ==
    [morph |-> FALSE, samples_until_control_update |-> 0, detections |-> 0,
     allocations |-> 0]

\* PitchDetector::process of a program with one processor only: its
\* frame_counter and the pitch estimates made
NewDetector == [frame_counter |-> 0, detections |-> 0]

\* last_energy and smoothed_energy after modal_attractors_engine_init, in
\* thousandths
NoSignal == [last_energy |-> 0, smoothed_energy |-> 0]

\* the audio thread is outside the render block, the main thread outside
\* the parameter observer
NoThreads == [audio |-> "idle", main |-> "idle"]

\* no noteOn of the allocator was the last call
NoVoiceCall ==
    [op |-> "none", note |-> 60, mapped |-> NoVoice, busy |-> {},
     ages |-> [i \in VoiceIdx |-> 0]]

Init ==
    /\ initialized = FALSE
    /\ controlRateCounter = 0
    /\ params = DefaultParams
    /\ nodes = [i \in NodeIdx |-> NewVoice("Resonator")]
    /\ character_ids = [i \in NodeIdx |-> i]
    /\ current_characters = [i \in NodeIdx |-> UnsetCharacter]
    /\ mode_shapes = [i \in NodeIdx |-> AllSine]
    /\ note_to_node = [n \in Notes |-> NoNode]
    /\ active_node_count = NUM_NETWORK_NODES
    /\ routing_mode = "MidiChannel"
    /\ multi_excite_mode = "Accumulate"
    /\ nm_initialized = FALSE
    /\ pitch_bend = 0
    /\ queue = <<>>
    /\ dropped = FALSE
    /\ lastPush = TRUE
    /\ accepted = <<>>
    /\ note_is_on = FALSE
    /\ current_note = 60
    /\ paramCall = NoParamCall
    /\ buffers = NoBuffers
    /\ lastOutput = "none"
    /\ frame_counter = 0
    /\ processors = [inst \in Instances |-> NewProcessor]
    /\ alone = [inst \in Instances |-> NewDetector]
    /\ threads = NoThreads
    /\ signal = NoSignal
    /\ trace = <<>>
    /\ blockFrames = 0
    /\ lastCall = NoCall
    /\ voices = [i \in VoiceIdx |-> NewVoice("Resonator")]
    /\ note_to_voice = [n \in Notes |-> NoVoice]
    /\ va_active_node_count = MaxPolyphony
    /\ va_initialized = FALSE
    /\ va_modes = [i \in VoiceIdx |-> NoModes]
    /\ mode_params = DefaultModeParams
    /\ va_pitch_bend = 0
    /\ vaCall = NoVoiceCall

\* assign the engine record to the engine variables
SetEngine(E) ==
    /\ controlRateCounter' = E.ctr
    /\ params' = E.params
    /\ nodes' = E.nodes
    /\ character_ids' = E.character_ids
    /\ current_characters' = E.current_characters
    /\ mode_shapes' = E.mode_shapes
    /\ note_to_node' = E.note_to_node
    /\ active_node_count' = E.active_node_count
    /\ routing_mode' = E.routing_mode
    /\ multi_excite_mode' = E.multi_excite_mode
    /\ nm_initialized' = E.nm_initialized
    /\ pitch_bend' = E.pitch_bend

Sounding == {i \in NodeIdx : isActive(nodes[i])}

\* the nodes that hold modal energy
Energized == {i \in NodeIdx : modal_node_get_amplitude(nodes[i].amp) > 0}

\* ------------------------------------------------------------------------
\* Operations
\* ------------------------------------------------------------------------
\* SynthEngine::prepare with NodeManager::initialize and setNodeCharacter
Prepare ==
    /\ initialized' = TRUE
    /\ SetEngine(SE_prepare(Engine))
    /\ lastCall' = NoCall
    /\ UNCHANGED <<queueVars, trace, blockFrames>>
    /\ UNCHANGED <<vaVars, fxVars, bridgeVars>>

\* modal_attractors_engine_begin_events, on whichever thread calls it
BeginEventsCall ==
    /\ IF initialized
       THEN /\ queue' = EQ_clear(queue)
            /\ dropped' = FALSE
            /\ accepted' = <<>>
            /\ trace' = <<>>
            /\ blockFrames' = 0
       ELSE UNCHANGED <<queue, dropped, accepted, trace, blockFrames>>
    /\ lastCall' = NoCall
    /\ UNCHANGED <<engineVars, lastPush>>
    /\ UNCHANGED <<vaVars, fxVars, paramCall, buffers, lastOutput, dspVars>>

\* modal_attractors_engine_begin_events
BeginEvents == BeginEventsCall /\ UNCHANGED threads

\* modal_attractors_engine_push_note_on / _note_off / ... with
\* EventQueue::push, on whichever thread calls it
PushCall(event) ==
    /\ IF initialized
       THEN /\ queue' = EQ_push(queue, event)
            /\ lastPush' = EQ_pushResult(queue, event)
            /\ dropped' = (dropped \/ ~EQ_pushResult(queue, event))
            /\ accepted' = IF EQ_pushResult(queue, event)
                           THEN Append(accepted, event) ELSE accepted
            /\ trace' = <<>>
            /\ blockFrames' = 0
       ELSE UNCHANGED <<queue, lastPush, dropped, accepted, trace, blockFrames>>
    /\ lastCall' = NoCall
    /\ UNCHANGED engineVars
    /\ UNCHANGED <<vaVars, fxVars, paramCall, buffers, lastOutput, dspVars>>

\* modal_attractors_engine_push_note_on / _note_off / ... with EventQueue::push
Push(event) == PushCall(event) /\ UNCHANGED threads

\* SynthEngine::render
Render(numFrames) ==
    /\ IF initialized
       THEN \E r \in {render(Engine, queue, numFrames)} :
                /\ SetEngine(r.eng)
                /\ trace' = Schedule(r.trace)
                /\ blockFrames' = numFrames
       ELSE /\ SetEngine(Engine)
            /\ UNCHANGED <<trace, blockFrames>>
    /\ lastOutput' = IF initialized THEN "audio" ELSE "zeros"
    /\ lastCall' = NoCall
    /\ UNCHANGED <<initialized, queueVars>>
    /\ UNCHANGED <<vaVars, fxVars, paramCall, buffers, dspVars, threads>>

\* NodeManager::setNodeCount
SetNodeCount(count) ==
    /\ SetEngine(NM_setNodeCount(Engine, count))
    /\ lastCall' = [op |-> "setNodeCount", arg |-> count, before |-> Sounding,
                    energized |-> Energized]
    /\ UNCHANGED <<initialized, queueVars, trace, blockFrames>>
    /\ UNCHANGED <<vaVars, fxVars, bridgeVars>>

\* SynthEngine::reset
Reset ==
    /\ IF initialized
       THEN SetEngine(SE_reset(Engine))
       ELSE SetEngine(Engine)
    /\ lastCall' = [op |-> "reset", arg |-> 0, before |-> Sounding,
                    energized |-> Energized]
    /\ UNCHANGED <<initialized, queueVars, trace, blockFrames>>
    /\ UNCHANGED <<vaVars, fxVars, bridgeVars>>

\* NodeManager::noteOn called directly
NoteOn(midi_note, velocity, midi_channel) ==
    /\ SetEngine(NM_noteOn(Engine, midi_note, velocity, midi_channel))
    /\ lastCall' = IF midi_note > 127
                   THEN [op |-> "noteOn", arg |-> midi_note,
                         before |-> Sounding, energized |-> Energized]
                   ELSE NoCall
    /\ UNCHANGED <<initialized, queueVars, trace, blockFrames>>
    /\ UNCHANGED <<vaVars, fxVars, bridgeVars>>

\* NodeManager::noteOff called directly
NoteOff(midi_note) ==
    /\ SetEngine(NM_noteOff(Engine, midi_note))
    /\ lastCall' = IF midi_note > 127
                   THEN [op |-> "noteOff", arg |-> midi_note,
                         before |-> Sounding, energized |-> Energized]
                   ELSE NoCall
    /\ UNCHANGED <<initialized, queueVars, trace, blockFrames>>
    /\ UNCHANGED <<vaVars, fxVars, bridgeVars>>

\* NodeManager::allNotesOff called directly
AllNotesOff ==
    /\ SetEngine(NM_allNotesOff(Engine))
    /\ lastCall' = [op |-> "allNotesOff", arg |-> 0, before |-> Sounding,
                    energized |-> Energized]
    /\ UNCHANGED <<initialized, queueVars, trace, blockFrames>>
    /\ UNCHANGED <<vaVars, fxVars, bridgeVars>>

\* NodeManager::updateNodes called directly (one control period)
UpdateNodes ==
    /\ SetEngine(NM_updateNodes(Engine))
    /\ lastCall' = NoCall
    /\ UNCHANGED <<initialized, queueVars, trace, blockFrames>>
    /\ UNCHANGED <<vaVars, fxVars, bridgeVars>>

\* NodeManager::setRoutingMode
SetRoutingMode(mode) ==
    /\ SetEngine(NM_setRoutingMode(Engine, mode))
    /\ lastCall' = NoCall
    /\ UNCHANGED <<initialized, queueVars, trace, blockFrames>>
    /\ UNCHANGED <<vaVars, fxVars, bridgeVars>>

\* NodeManager::setNodeCharacter
SetNodeCharacter(node_idx, character_id) ==
    /\ SetEngine(NM_setNodeCharacter(Engine, node_idx, character_id))
    /\ lastCall' = NoCall
    /\ UNCHANGED <<initialized, queueVars, trace, blockFrames>>
    /\ UNCHANGED <<vaVars, fxVars, bridgeVars>>

\* NodeManager::setNodeCharacterCustom
SetNodeCharacterCustom(node_idx, character) ==
    /\ SetEngine(NM_setNodeCharacterCustom(Engine, node_idx, character))
    /\ lastCall' = [op |-> "setNodeCharacterCustom", arg |-> node_idx,
                    before |-> {character}, energized |-> {}]
    /\ UNCHANGED <<initialized, queueVars, trace, blockFrames>>
    /\ UNCHANGED <<vaVars, fxVars, bridgeVars>>

\* assign the allocator record to the allocator variables
SetAllocator(A) ==
    /\ voices' = A.voices
    /\ note_to_voice' = A.note_to_voice
    /\ va_active_node_count' = A.active_node_count
    /\ va_initialized' = A.initialized
    /\ va_modes' = A.modes
    /\ mode_params' = A.mode_params
    /\ va_pitch_bend' = A.pitch_bend

synthVars == <<engineVars, queueVars, fxVars, bridgeVars, trace, blockFrames,
              lastCall>>

\* the voices that are sounding
Busy == {i \in VoiceIdx : isActive(voices[i])}

\* no voice within the active count is free
PoolFull == \A i \in VoiceIdx : i < va_active_node_count => i \in Busy

\* VoiceAllocator::initialize
VoiceInitialize ==
    /\ SetAllocator(VA_initialize(Allocator))
    /\ vaCall' = NoVoiceCall
    /\ UNCHANGED synthVars

\* VoiceAllocator::noteOn
VoiceNoteOn(midi_note, velocity) ==
    /\ SetAllocator(VA_noteOn(Allocator, midi_note, velocity))
    /\ vaCall' = IF va_initialized /\ midi_note > 127
                 THEN [op |-> "noteOn", note |-> midi_note,
                       mapped |-> NoVoice, busy |-> Busy,
                       ages |-> [i \in VoiceIdx |-> 0]]
                 ELSE IF va_initialized
                 THEN [op |-> "noteOn", note |-> midi_note,
                       mapped |-> note_to_voice[midi_note],
                       busy |-> Busy,
                       ages |-> [i \in VoiceIdx |->
                                   IF PoolFull THEN getAge(voices[i]) ELSE 0]]
                 ELSE NoVoiceCall
    /\ UNCHANGED synthVars

\* VoiceAllocator::setMode
VoiceSetMode(mode_idx, freq_multiplier, damping, weight) ==
    /\ SetAllocator(VA_setMode(Allocator, mode_idx, freq_multiplier, damping,
                               weight))
    /\ vaCall' = NoVoiceCall
    /\ UNCHANGED synthVars

\* VoiceAllocator::noteOff
VoiceNoteOff(midi_note) ==
    /\ SetAllocator(VA_noteOff(Allocator, midi_note))
    /\ vaCall' = NoVoiceCall
    /\ UNCHANGED synthVars

\* VoiceAllocator::allNotesOff
VoiceAllNotesOff ==
    /\ SetAllocator(VA_allNotesOff(Allocator))
    /\ vaCall' = NoVoiceCall
    /\ UNCHANGED synthVars

\* VoiceAllocator::setNodeCount
VoiceSetNodeCount(node_count) ==
    /\ SetAllocator(VA_setNodeCount(Allocator, node_count))
    /\ vaCall' = NoVoiceCall
    /\ UNCHANGED synthVars

\* VoiceAllocator::setPitchBend
VoiceSetPitchBend(bend_amount) ==
    /\ SetAllocator(VA_setPitchBend(Allocator, bend_amount))
    /\ vaCall' = [op |-> "setPitchBend", note |-> 60, mapped |-> NoVoice,
                  busy |-> Busy, ages |-> [i \in VoiceIdx |-> 0]]
    /\ UNCHANGED synthVars

\* VoiceAllocator::updateVoices
VoiceUpdate ==
    /\ SetAllocator(VA_updateVoices(Allocator))
    /\ vaCall' = NoVoiceCall
    /\ UNCHANGED synthVars

\* VoiceAllocator::renderAudio
VoiceRender(num_frames) ==
    /\ \E A \in {VA_renderAudio(Allocator, num_frames)} : SetAllocator(A)
    /\ vaCall' = NoVoiceCall
    /\ UNCHANGED synthVars

vars == <<engineVars, queueVars, fxVars, bridgeVars, trace, blockFrames,
         lastCall, vaVars>>
\* modal_attractors_engine_process: onset detection and auto note-off on
\* the input's energy, then SynthEngine::render on the queue; on whichever
\* thread calls it
ProcessCall(numFrames, onset, quiet, target_note, velocity) ==
    /\ IF initialized
       THEN \E d \in {FX_detect(queue, note_is_on, current_note, onset, quiet,
                                target_note, velocity)} :
            \E r \in {render(Engine, d.queue, numFrames)} :
                /\ queue' = d.queue
                /\ note_is_on' = d.note_is_on
                /\ current_note' = d.current_note
                /\ SetEngine(r.eng)
                /\ trace' = Schedule(r.trace)
                /\ blockFrames' = numFrames
       ELSE /\ SetEngine(Engine)
            /\ UNCHANGED <<queue, fxVars, trace, blockFrames>>
    /\ lastCall' = [op |-> "process", arg |-> numFrames, before |-> Sounding,
                    energized |-> Energized]
    /\ lastOutput' = IF initialized THEN "audio" ELSE "zeros"
    /\ UNCHANGED <<initialized, dropped, lastPush, accepted>>
    /\ UNCHANGED <<vaVars, paramCall, buffers, pdVars>>

\* modal_attractors_engine_process, the input given by what it makes the
\* detection find
Process(numFrames, onset, quiet, target_note, velocity) ==
    /\ ProcessCall(numFrames, onset, quiet, target_note, velocity)
    /\ UNCHANGED <<threads, signal>>

\* the smoothed energy after a block of the given energy (thousandths)
FX_smooth(smoothed_energy, energy) == (19 * smoothed_energy + energy) \div 20

\* the onset test of modal_attractors_engine_process: energyDelta >
\* threshold * excite and energy > 0.002 * excite, with threshold = 0.005 +
\* smoothed_energy * 0.5; energies in thousandths, excite in tenths
FX_onset(last_energy, smoothed_energy, energy, excite) ==
    /\ 20 * (energy - last_energy) > (10 + smoothed_energy) * excite
    /\ 5 * energy > excite

\* the auto note-off test: smoothed_energy < 0.001
FX_quiet(smoothed_energy) == smoothed_energy < 1

\* modal_attractors_engine_process on an input block of the given energy
ProcessSignal(numFrames, energy, target_note, velocity) ==
    LET smoothed == FX_smooth(signal.smoothed_energy, energy)
    IN  /\ ProcessCall(numFrames,
                       FX_onset(signal.last_energy, smoothed, energy,
                                params[2]),
                       FX_quiet(smoothed), target_note, velocity)
        /\ signal' = IF initialized
                     THEN [last_energy |-> energy, smoothed_energy |-> smoothed]
                     ELSE signal
        /\ UNCHANGED threads

\* modal_attractors_engine_set_parameter with SynthEngine::setParameter, on
\* whichever thread calls it
SetParameterCall(paramId, value) ==
    /\ IF initialized
       THEN SetEngine(setParameter(Engine, paramId, value))
       ELSE SetEngine(Engine)
    /\ paramCall' = IF initialized
                    THEN [op |-> "set", id |-> paramId, value |-> value,
                          pending |-> -1]
                    ELSE NoParamCall
    /\ lastCall' = NoCall
    /\ UNCHANGED <<initialized, queueVars, fxVars, trace, blockFrames>>
    /\ UNCHANGED <<vaVars, buffers, lastOutput, dspVars>>

\* modal_attractors_engine_set_parameter
SetParameter(paramId, value) ==
    SetParameterCall(paramId, value) /\ UNCHANGED threads

\* a get_parameter that asks the engine without looking at the flag
engine_get_parameter_unchecked(init, E, paramId) == getParameter(E, paramId)

\* modal_attractors_engine_get_parameter: the value returned
engine_get_parameter(init, E, paramId) ==
    IF init THEN getParameter(E, paramId) ELSE 0

\* modal_attractors_engine_get_parameter with SynthEngine::getParameter
GetParameter(paramId) ==
    /\ paramCall' = [op |-> "get", id |-> paramId,
                     value |-> engine_get_parameter(initialized, Engine, paramId),
                     pending |-> IF paramCall.op = "set" /\ paramCall.id = paramId
                                 THEN paramCall.value ELSE -1]
    /\ lastCall' = NoCall
    /\ UNCHANGED <<engineVars, queueVars, fxVars, trace, blockFrames>>
    /\ UNCHANGED <<vaVars, buffers, lastOutput, dspVars, threads>>

\* the SynthEngine that modal_attractors_engine_init constructs
NewEngine ==
    [ctr |-> 0, params |-> DefaultParams,
     nodes |-> [i \in NodeIdx |-> NewVoice("Resonator")],
     character_ids |-> [i \in NodeIdx |-> i],
     current_characters |-> [i \in NodeIdx |-> UnsetCharacter],
     mode_shapes |-> [i \in NodeIdx |-> AllSine],
     note_to_node |-> [n \in Notes |-> NoNode],
     active_node_count |-> NUM_NETWORK_NODES, routing_mode |-> "MidiChannel",
     multi_excite_mode |-> "Accumulate", nm_initialized |-> FALSE,
     pitch_bend |-> 0]

\* NodeManager::initialize, the allocation: two new temp buffers are stored in
\* temp_buffer_L_ and temp_buffer_R_, whatever these pointed to before
NM_initialize_buffers(B) ==
    [B EXCEPT !.temp_buffer = TRUE,
              !.leaked = IF B.temp_buffer THEN @ + 2 ELSE @]

\* modal_attractors_engine_prepare, the allocations: the wet buffers are
\* replaced when max_frames grows, the pitch buffer when the sample rate
\* changes, then SynthEngine::prepare runs NodeManager::initialize
engine_prepare_buffers(B, sample_rate, max_frames) ==
    NM_initialize_buffers(
        [B EXCEPT !.buffer_size = IF max_frames > @ THEN max_frames ELSE @,
                  !.sample_rate = sample_rate])

\* modal_attractors_engine_init on a struct that holds nothing
EngineInit(sample_rate, max_frames) ==
    /\ ~initialized
    /\ ~buffers.synth_engine
    /\ initialized' = TRUE
    /\ SetEngine(SE_prepare(NewEngine))
    /\ buffers' = NM_initialize_buffers(
                      [buffers EXCEPT !.synth_engine = TRUE, !.wet = TRUE,
                                      !.pitch_buffer = TRUE,
                                      !.temp_buffer = FALSE,
                                      !.buffer_size = max_frames,
                                      !.sample_rate = sample_rate])
    /\ queue' = <<>>
    /\ dropped' = FALSE
    /\ lastPush' = TRUE
    /\ accepted' = <<>>
    /\ note_is_on' = FALSE
    /\ current_note' = 60
    /\ trace' = <<>>
    /\ blockFrames' = 0
    /\ lastCall' = NoCall
    /\ signal' = NoSignal
    /\ UNCHANGED <<vaVars, paramCall, lastOutput, pdVars, threads>>

\* modal_attractors_engine_prepare
EnginePrepare(sample_rate, max_frames) ==
    /\ initialized => buffers.leaked + 2 <= MaxLeaked
    /\ IF initialized
       THEN /\ SetEngine(SE_prepare(Engine))
            /\ buffers' = engine_prepare_buffers(buffers, sample_rate,
                                                 max_frames)
       ELSE /\ SetEngine(Engine)
            /\ UNCHANGED buffers
    /\ lastCall' = NoCall
    /\ UNCHANGED <<initialized, queueVars, fxVars, trace, blockFrames>>
    /\ UNCHANGED <<vaVars, paramCall, lastOutput, dspVars, threads>>

\* modal_attractors_engine_cleanup: every pointer that is not null is
\* released and set to null; ~NodeManager releases the temp buffers it points
\* to. The SynthEngine and the EventQueue are gone afterwards: the engine
\* variables and the queue show the ones the next init constructs
Cleanup ==
    /\ initialized' = FALSE
    /\ buffers' = [buffers EXCEPT !.synth_engine = FALSE, !.wet = FALSE,
                                  !.pitch_buffer = FALSE,
                                  !.temp_buffer = FALSE,
                                  !.buffer_size = 0]
    /\ SetEngine(NewEngine)
    /\ queue' = <<>>
    /\ dropped' = FALSE
    /\ accepted' = <<>>
    /\ trace' = <<>>
    /\ blockFrames' = 0
    /\ lastCall' = NoCall
    /\ UNCHANGED <<lastPush, fxVars>>
    /\ UNCHANGED <<vaVars, paramCall, lastOutput, dspVars, threads>>

\* the block of the current queue has been rendered
Rendered == blockFrames > 0

\* the engine driven by the host: one block after the other
Next ==
    \/ Prepare
    \/ BeginEvents
    \/ \E event \in HostEvents : Push(event)
    \/ \E numFrames \in FrameCounts : Render(numFrames)
    \/ Reset

Spec == Init /\ [][Next]_vars

\* the node network driven through the NodeManager interface, no events
NextNM ==
    \/ Prepare
    \/ \E n \in Notes, v \in Velocities, c \in Channels : NoteOn(n, v, c)
    \/ \E n \in Notes : NoteOff(n)
    \/ \E count \in 0 .. (NUM_NETWORK_NODES + 1) : SetNodeCount(count)
    \/ \E numFrames \in FrameCounts : Render(numFrames)

SpecNM == Init /\ [][NextNM]_vars

\* the host keeps calling render with blocks that hold frames
RenderContinues == \E numFrames \in FrameCounts : Render(numFrames)

\* the network played while rendering continues.  A prepared engine can
\* always render (Render(2) moves controlRateCounter), so weak fairness of
\* RenderContinues is that render steps keep happening
SpecDecayNetwork == Init /\ [][NextNM]_vars /\ []<><<RenderContinues>>_vars

\* the characters offered: a Resonator and the SelfOscillator of the library
CharacterIds == {0, 4}
RoutingModes == {"MidiChannel", "AllNodes"}

\* the node network with its configuration: routing mode and characters
NextCfg ==
    \/ Prepare
    \/ \E mode \in RoutingModes : SetRoutingMode(mode)
    \/ \E i \in {0, NUM_NETWORK_NODES}, id \in CharacterIds :
          SetNodeCharacter(i, id)
    \/ \E n \in Notes, v \in Velocities : NoteOn(n, v, 0)
    \/ \E n \in Notes : NoteOff(n)
    \/ AllNotesOff
    \/ \E count \in 0 .. (NUM_NETWORK_NODES + 1) : SetNodeCount(count)
    \/ UpdateNodes

SpecCfg == Init /\ [][NextCfg]_vars

\* the channels of the routing: one below every node count, one that only
\* the full network has a node for, one beyond the network
RoutedChannels == {0, NUM_NETWORK_NODES - 1, NUM_NETWORK_NODES + 1}

\* the node network with both routing modes and every node count
NextRoute ==
    \/ Prepare
    \/ \E mode \in RoutingModes : SetRoutingMode(mode)
    \/ \E count \in 1 .. NUM_NETWORK_NODES : SetNodeCount(count)
    \/ \E c \in RoutedChannels : NoteOn(60, 1, c)
    \/ NoteOff(60)

SpecRoute == Init /\ [][NextRoute]_vars

\* the block energies of the input, in thousandths: silence and a hit
SignalLevels == {0, 40}

\* the values of the Excite parameter offered, in tenths
ExciteValues == {0, 5, 10}

\* the effect on an input signal, with the Excite parameter moved by the
\* user; the host pushes no events
NextExcite ==
    \/ Prepare
    \/ BeginEvents
    \/ \E value \in ExciteValues : SetParameter(2, value)
    \/ \E energy \in SignalLevels : ProcessSignal(2, energy, 61, 1)

SpecExcite == Init /\ [][NextExcite]_vars

\* ------------------------------------------------------------------------
\* ResonantBodyProcessor and PitchDetector
\* ------------------------------------------------------------------------
\* PitchDetector::process on the counter given: whether runPitchDetection
\* runs in this call, and the counter afterwards
PD_process(counter, num_frames) ==
    LET sum == counter + num_frames
    IN  [ran |-> sum >= WindowSamples,
         frame_counter |-> IF sum >= WindowSamples THEN 0 ELSE sum]

\* the heap allocations of one ResonantBodyProcessor::process call:
\* mono_input, wet_L and wet_R, and linear_buffer of runPitchDetection
RBP_allocations(num_frames, ran) ==
    (IF num_frames > 0 THEN 3 ELSE 0) + (IF ran THEN 1 ELSE 0)

\* ResonantBodyProcessor::setMorph: whether morph_ exceeds 0.01 afterwards
RBP_setMorph(inst, on) ==
    /\ processors' = [processors EXCEPT ![inst].morph = on,
                                         ![inst].allocations = 0]
    /\ UNCHANGED <<frame_counter, alone, threads, paramCall, buffers,
                   lastOutput, signal>>
    /\ UNCHANGED <<engineVars, queueVars, fxVars, trace, blockFrames, lastCall,
                   vaVars>>

\* ResonantBodyProcessor::reset with PitchDetector::reset
RBP_reset(inst) ==
    /\ processors' = [processors EXCEPT
                          ![inst].samples_until_control_update = 0,
                          ![inst].allocations = 0]
    /\ UNCHANGED <<frame_counter, alone, threads, paramCall, buffers,
                   lastOutput, signal>>
    /\ UNCHANGED <<engineVars, queueVars, fxVars, trace, blockFrames, lastCall,
                   vaVars>>

\* ResonantBodyProcessor::process with PitchDetector::process
RBP_process(inst, num_frames) ==
    LET P == processors[inst]
        shared == PD_process(frame_counter, num_frames)
        own == PD_process(alone[inst].frame_counter, num_frames)
        ran == P.morph /\ shared.ran
        ticks == P.samples_until_control_update + num_frames
    IN  /\ P.detections < MaxDetections
        /\ alone[inst].detections < MaxDetections
        /\ frame_counter' = IF P.morph THEN shared.frame_counter
                            ELSE frame_counter
        /\ processors' = [processors EXCEPT ![inst] =
               [morph |-> P.morph,
                samples_until_control_update |->
                    IF ticks >= ControlPeriod THEN 0 ELSE ticks,
                detections |-> P.detections + (IF ran THEN 1 ELSE 0),
                allocations |-> RBP_allocations(num_frames, ran)]]
        /\ alone' = [alone EXCEPT ![inst] =
               IF P.morph
               THEN [frame_counter |-> own.frame_counter,
                     detections |-> @.detections + (IF own.ran THEN 1 ELSE 0)]
               ELSE @]
        /\ UNCHANGED <<threads, paramCall, buffers, lastOutput, signal>>
        /\ UNCHANGED <<engineVars, queueVars, fxVars, trace, blockFrames,
                       lastCall, vaVars>>

\* the block sizes the processors are called with
ProcessorFrames == {1, 2}

\* two processors of one program, each called by its own host track
NextDSP ==
    \/ \E inst \in Instances, on \in BOOLEAN : RBP_setMorph(inst, on)
    \/ \E inst \in Instances, num_frames \in ProcessorFrames :
           RBP_process(inst, num_frames)
    \/ \E inst \in Instances : RBP_reset(inst)

SpecDSP == Init /\ [][NextDSP]_vars

\* ------------------------------------------------------------------------
\* The audio unit's threads: the render block on the audio thread, the
\* parameter tree's observer on the main thread
\* ------------------------------------------------------------------------
\* the render block enters modal_attractors_engine_begin_events
RB_begin_events ==
    /\ threads.audio = "idle"
    /\ BeginEventsCall
    /\ threads' = [threads EXCEPT !.audio = "begin_events"]

\* the render block enters a push for the next event of the host's list
RB_push(event) ==
    /\ threads.audio = "collecting"
    /\ PushCall(event)
    /\ threads' = [threads EXCEPT !.audio = "push"]

\* the render block enters modal_attractors_engine_process
RB_process(numFrames) ==
    /\ threads.audio = "collecting"
    /\ ProcessCall(numFrames, FALSE, FALSE, 61, 1)
    /\ threads' = [threads EXCEPT !.audio = "process"]
    /\ UNCHANGED signal

\* the call the audio thread is inside returns: to the event loop of the
\* block, or out of the block after process
RB_return ==
    /\ threads.audio \in {"begin_events", "push", "process"}
    /\ threads' = [threads EXCEPT !.audio =
                      IF @ = "process" THEN "idle" ELSE "collecting"]
    /\ UNCHANGED <<paramCall, buffers, lastOutput, dspVars>>
    /\ UNCHANGED <<engineVars, queueVars, fxVars, trace, blockFrames, lastCall,
                   vaVars>>

\* implementorValueObserver enters modal_attractors_engine_set_parameter;
\* nothing in it waits for the render block
Observer_set_parameter(paramId, value) ==
    /\ threads.main = "idle"
    /\ SetParameterCall(paramId, value)
    /\ threads' = [threads EXCEPT !.main = "set_parameter"]

\* the observer's call returns
Observer_return ==
    /\ threads.main = "set_parameter"
    /\ threads' = [threads EXCEPT !.main = "idle"]
    /\ UNCHANGED <<paramCall, buffers, lastOutput, dspVars>>
    /\ UNCHANGED <<engineVars, queueVars, fxVars, trace, blockFrames, lastCall,
                   vaVars>>

\* the audio unit after its initializer: the host renders blocks while the
\* user or the host's automation moves parameters
NextThreads ==
    \/ EngineInit(44, 1)
    \/ RB_begin_events
    \/ \E v \in Velocities : RB_push(NoteOnEvent(0, 60, v, 0))
    \/ RB_process(2)
    \/ RB_return
    \/ \E value \in {3, 10} : Observer_set_parameter(0, value)
    \/ Observer_return

SpecThreads == Init /\ [][NextThreads]_vars

\* the sample rates (kHz) and block sizes the host prepares with: the ones
\* of init, and a higher rate with a larger block
PrepareFormats == {<<44, 1>>, <<48, 2>>}

\* the engine's lifecycle as the host drives it, with the calls a host may
\* make before init and after cleanup
NextLife ==
    \/ EngineInit(44, 1)
    \/ \E format \in PrepareFormats : EnginePrepare(format[1], format[2])
    \/ Reset
    \/ Cleanup
    \/ BeginEvents
    \/ Push(NoteOnEvent(0, 60, 1, 0))
    \/ Render(2)
    \/ Process(2, FALSE, FALSE, 61, 1)
    \/ SetParameter(0, 10)
    \/ GetParameter(0)

SpecLife == Init /\ [][NextLife]_vars

\* the parameter values offered: both ends of the documented range [0, 1],
\* in tenths
ParamValues == {0, 3, 10}

\* the parameter ids offered: the five of ModalEffectExtensionParameterAddress
\* and the first one past them
OfferedParamIds == ParamIds \cup {5}

\* the engine with its parameters being set and read between render calls
NextParam ==
    \/ Prepare
    \/ \E paramId \in OfferedParamIds, value \in ParamValues :
          SetParameter(paramId, value)
    \/ \E paramId \in OfferedParamIds : GetParameter(paramId)
    \/ BeginEvents
    \/ Reset

SpecParam == Init /\ [][NextParam]_vars

\* the engine with its node network configured, played and reset
NextReset ==
    \/ Prepare
    \/ SetParameter(0, 10)
    \/ SetRoutingMode("AllNodes")
    \/ SetNodeCharacter(0, 4)
    \/ SetNodeCount(NUM_NETWORK_NODES - 1)
    \/ \E v \in Velocities : NoteOn(60, v, 0)
    \/ Render(2)
    \/ Reset

SpecReset == Init /\ [][NextReset]_vars

\* the host's render callback: beginEvents, then the pushes, then one render
ProtoBeginEvents == (Rendered \/ accepted = <<>>) /\ BeginEvents
ProtoPush(event) == ~Rendered /\ Push(event)
ProtoRender(numFrames) == ~Rendered /\ Render(numFrames)

\* the engine driven by a host that keeps the beginEvents, push*, render
\* protocol
NextProto ==
    \/ Prepare
    \/ ProtoBeginEvents
    \/ \E event \in HostEvents : ProtoPush(event)
    \/ \E numFrames \in FrameCounts : ProtoRender(numFrames)

SpecProto == Init /\ [][NextProto]_vars

ProtoProcess(numFrames, onset, quiet, target_note, velocity) ==
    ~Rendered /\ Process(numFrames, onset, quiet, target_note, velocity)

\* what the host pushes in effect mode: a control change and a note-off
FXHostEvents == {CCEvent(1), NoteOffEvent(3, 60)}

\* the engine as an effect: the host keeps the protocol and renders each
\* block with process
NextFX ==
    \/ Prepare
    \/ ProtoBeginEvents
    \/ \E event \in FXHostEvents : ProtoPush(event)
    \/ \E numFrames \in FrameCounts, onset \in BOOLEAN, quiet \in BOOLEAN,
          target_note \in Notes, velocity \in Velocities :
          ProtoProcess(numFrames, onset, quiet, target_note, velocity)

SpecFX == Init /\ [][NextFX]_vars

\* the effect under a host that pushes control changes only, so that every
\* note event of a block is one that process generated
NextStuck ==
    \/ Prepare
    \/ ProtoBeginEvents
    \/ ProtoPush(CCEvent(1))
    \/ \E onset \in BOOLEAN, quiet \in BOOLEAN, target_note \in Notes :
          ProtoProcess(2, onset, quiet, target_note, 1)

SpecStuck == Init /\ [][NextStuck]_vars

\* the voice pool played with the pitch wheel
NextBend ==
    \/ ~va_initialized /\ VoiceInitialize
    \/ \E n \in Notes : VoiceNoteOn(n, 1)
    \/ \E n \in Notes : VoiceNoteOff(n)
    \/ \E bend_amount \in BendAmounts : VoiceSetPitchBend(bend_amount)
    \/ VoiceUpdate

SpecBend == Init /\ [][NextBend]_vars

\* the voice pool driven through the VoiceAllocator interface; initialize is
\* called once, when the resources are allocated
NextVA ==
    \/ ~va_initialized /\ VoiceInitialize
    \/ \E n \in Notes, v \in Velocities : VoiceNoteOn(n, v)
    \/ \E n \in Notes : VoiceNoteOff(n)
    \/ VoiceAllNotesOff
    \/ \E c \in 0 .. (MaxPolyphony + 1) : VoiceSetNodeCount(c)
    \/ VoiceUpdate
    \/ VoiceRender(SamplesPerUpdate)

SpecVA == Init /\ [][NextVA]_vars

\* the voice pool while rendering continues: the host's render callback
\* keeps calling VoiceAllocator::renderAudio, which is never disabled
NextDecay ==
    \/ ~va_initialized /\ VoiceInitialize
    \/ VoiceNoteOn(60, 1)
    \/ VoiceNoteOff(60)
    \/ \E c \in {1, MaxPolyphony} : VoiceSetNodeCount(c)
    \/ VoiceRender(SamplesPerUpdate)

SpecDecay ==
    Init /\ [][NextDecay]_vars /\ WF_vars(VoiceRender(SamplesPerUpdate))

\* the mode settings offered: the default of mode 1 and a detuned one
ModeSettings ==
    {[freq_multiplier |-> 200, damping |-> 12, weight |-> 8],
     [freq_multiplier |-> 150, damping |-> 3, weight |-> 9]}

\* the voice pool with its mode parameters being configured
NextModes ==
    \/ ~va_initialized /\ VoiceInitialize
    \/ \E mode_idx \in {1, MAX_MODES}, m \in ModeSettings :
          VoiceSetMode(mode_idx, m.freq_multiplier, m.damping, m.weight)
    \/ \E n \in Notes, v \in Velocities : VoiceNoteOn(n, v)
    \/ \E n \in Notes : VoiceNoteOff(n)
    \/ \E c \in {1, MaxPolyphony} : VoiceSetNodeCount(c)
    \/ VoiceUpdate

SpecModes == Init /\ [][NextModes]_vars

\* a custom character with every number at the lower end of what
\* validateCharacter accepts, and one with every number at the upper end
LowCharacter ==
    Character(<<10, 10, 10, 10>>, <<1, 1, 1, 1>>, <<0, 0, 0, 0>>,
              <<"SAWTOOTH", "SINE", "SINE", "SQUARE">>, "SelfOscillator",
              0, 100, 10)
HighCharacter ==
    Character(<<2000, 2000, 2000, 2000>>, <<1000, 1000, 1000, 1000>>,
              <<100, 100, 100, 100>>,
              <<"TRIANGLE", "SINE", "SINE", "SINE">>, "Resonator",
              100, 5000, 200)

\* the custom characters offered: the two above, each of them with one number
\* moved one step past its end (for the mode arrays, in the last mode), and
\* a null pointer
CustomCharacters ==
    {LowCharacter, HighCharacter, NullCharacter,
     [LowCharacter EXCEPT !.mode_freq_mult[4] = 9],
     [LowCharacter EXCEPT !.mode_damping[4] = 0],
     [LowCharacter EXCEPT !.mode_weight[4] = -1],
     [LowCharacter EXCEPT !.poke_strength = -1],
     [LowCharacter EXCEPT !.poke_duration_ms = 99],
     [LowCharacter EXCEPT !.coupling_response_gain = 9],
     [HighCharacter EXCEPT !.mode_freq_mult[4] = 2001],
     [HighCharacter EXCEPT !.mode_damping[4] = 1001],
     [HighCharacter EXCEPT !.mode_weight[4] = 101],
     [HighCharacter EXCEPT !.poke_strength = 101],
     [HighCharacter EXCEPT !.poke_duration_ms = 5001],
     [HighCharacter EXCEPT !.coupling_response_gain = 201]}

\* the node indices and character ids offered: in range, the first one out
\* of range, and for the id also 0xFF
CharacterSlots == {0, NUM_NETWORK_NODES}
OfferedIds == {4, NUM_BUILTIN_CHARACTERS, 255}

\* the node network with characters being assigned
NextChar ==
    \/ Prepare
    \/ \E i \in CharacterSlots, id \in OfferedIds : SetNodeCharacter(i, id)
    \/ \E i \in CharacterSlots, character \in CustomCharacters :
          SetNodeCharacterCustom(i, character)
    \/ NoteOn(60, 1, 0)
    \/ NoteOff(60)

SpecChar == Init /\ [][NextChar]_vars

\* note numbers above 127: the first one, and one whose low seven bits are a
\* note of the model
BadNotes == {128, 188}

\* mode indices from MAX_MODES on: the first one and the largest uint8_t
BadModes == {MAX_MODES, 255}

\* the node network and the voice pool called with arguments in and out of
\* range
NextRange ==
    \/ Prepare
    \/ \E n \in {60} \cup BadNotes : NoteOn(n, 1, 0)
    \/ \E n \in {60} \cup BadNotes : NoteOff(n)
    \/ ~va_initialized /\ VoiceInitialize
    \/ \E n \in {60} \cup BadNotes : VoiceNoteOn(n, 1)
    \/ \E n \in {60} \cup BadNotes : VoiceNoteOff(n)
    \/ \E mode_idx \in {1} \cup BadModes : VoiceSetMode(mode_idx, 150, 3, 9)

SpecRange == Init /\ [][NextRange]_vars

\* ------------------------------------------------------------------------
\* Properties of the scheduler and the queue
\* ------------------------------------------------------------------------
\* the queue's sample offsets are non-decreasing in arrival order
TimeOrdered(q) ==
    \A i \in 1 .. (Len(q) - 1) : q[i].sampleOffset <= q[i + 1].sampleOffset

RECURSIVE FramesBefore(_, _)
\* frames rendered by the slices at positions before p of a schedule
FramesBefore(tr, p) ==
    IF p <= 1 THEN 0
    ELSE FramesBefore(tr, p - 1)
           + (IF tr[p - 1].op = "slice" THEN tr[p - 1].len ELSE 0)

\* the indices of the events a schedule applies, in order of application
AppliedIndices(tr) ==
    LET ev == SelectSeq(tr, LAMBDA x : x.op = "event")
    IN  [k \in 1 .. Len(ev) |-> ev[k].index]

\* where an offset falls in a block of n frames
OffsetInBlock(offset, n) ==
    IF offset < 0 THEN 0 ELSE IF offset > n THEN n ELSE offset

\* C1: for a time-ordered queue, render applies the events in arrival
\* order, each one after exactly clamp(offset, 0, frameCount) frames have
\* been rendered and before any frame at or beyond its offset; the frames
\* after the last event are rendered as a tail slice, so that the slices
\* cover the block once, in order.
C1_SampleAccurateOrder ==
    (Rendered /\ TimeOrdered(queue)) =>
       /\ AppliedIndices(trace) = [k \in 1 .. Len(queue) |-> k]
       /\ \A p \in 1 .. Len(trace) :
            /\ trace[p].op = "event" =>
                 FramesBefore(trace, p) =
                    OffsetInBlock(queue[trace[p].index].sampleOffset,
                                  blockFrames)
            /\ trace[p].op = "slice" =>
                 /\ trace[p].start = FramesBefore(trace, p)
                 /\ trace[p].len > 0
       /\ FramesBefore(trace, Len(trace) + 1) = blockFrames

\* a time-ordered block with two events at different offsets inside the
\* block, a slice between them and a tail slice
C1_Witness ==
    /\ Rendered /\ TimeOrdered(queue) /\ Len(queue) >= 2
    /\ Len(trace) >= 5
    /\ \E p \in 1 .. (Len(trace) - 2) :
         /\ trace[p].op = "event" /\ trace[p + 1].op = "slice"
         /\ trace[p + 2].op = "event"
         /\ FramesBefore(trace, p) > 0
    /\ trace[Len(trace)].op = "slice"

\* the events of q that fall before frame k / at or after frame k
EventsBefore(q, k) == SelectSeq(q, LAMBDA e : e.sampleOffset < k)
EventsFrom(q, k) ==
    LET r == SelectSeq(q, LAMBDA e : ~(e.sampleOffset < k))
    IN  [i \in 1 .. Len(r) |-> [r[i] EXCEPT !.sampleOffset = @ - k]]

RECURSIVE Repeat(_, _)
Repeat(x, n) == IF n <= 0 THEN <<>> ELSE <<x>> \o Repeat(x, n - 1)

RECURSIVE OutputOf(_, _)
\* the output levels, frame by frame, written by the slices from position p
OutputOf(tr, p) ==
    IF p > Len(tr) THEN <<>>
    ELSE (IF tr[p].op = "slice" THEN Repeat(tr[p].level, tr[p].len) ELSE <<>>)
           \o OutputOf(tr, p + 1)

\* number of control-rate updates made by the slices of a render call
ControlUpdates(tr) ==
    Cardinality({p \in 1 .. Len(tr) : tr[p].op = "slice" /\ tr[p].update})

\* one render call of n frames
WholeBlock(E, q, n) ==
    LET r == render(E, q, n)
    IN  [eng |-> r.eng, out |-> OutputOf(r.trace, 1),
         updates |-> ControlUpdates(r.trace)]

\* the same frames in two render calls split at frame k, state carried over
SplitBlock(E, q, n, k) ==
    LET a == render(E, EventsBefore(q, k), k)
        b == render(a.eng, EventsFrom(q, k), n - k)
    IN  [eng |-> b.eng, out |-> OutputOf(a.trace, 1) \o OutputOf(b.trace, 1),
         updates |-> ControlUpdates(a.trace) + ControlUpdates(b.trace)]

\* a block is about to be rendered
BlockPending == initialized /\ ~Rendered

\* C2: rendering a time-ordered block in one call gives the same output
\* samples and the same end state as rendering the same frames in two
\* consecutive calls split at a frame boundary, events partitioned by offset.
C2_SplitInvariance ==
    (BlockPending /\ TimeOrdered(queue)) =>
       \A n \in FrameCounts : \A k \in 0 .. n :
          /\ WholeBlock(Engine, queue, n).out = SplitBlock(Engine, queue, n, k).out
          /\ WholeBlock(Engine, queue, n).eng = SplitBlock(Engine, queue, n, k).eng

\* C3: the number of control-rate updates made while rendering T frames
\* depends only on T, not on the slicing by events or by render blocks.
C3_UpdatesDependOnlyOnFrames ==
    (BlockPending /\ TimeOrdered(queue)) =>
       \A n \in FrameCounts : \A k \in 0 .. n :
          /\ WholeBlock(Engine, queue, n).updates
               = WholeBlock(Engine, <<>>, n).updates
          /\ WholeBlock(Engine, <<>>, n).updates
               = SplitBlock(Engine, <<>>, n, k).updates

\* C4: the queue never holds more than MAX_EVENTS events; a push on a full
\* queue is rejected (returns false) and leaves the queue as it is, a push
\* on a queue with room appends; the following render applies exactly the
\* events in the queue, in order, and (the queue being time-ordered)
\* renders the whole block.
C4_QueueBackpressure ==
    /\ [](/\ Len(queue) <= MAX_EVENTS
          /\ (dropped => Len(queue) = MAX_EVENTS)
          /\ (Rendered =>
                /\ Len(AppliedIndices(trace)) = Len(queue)
                /\ \A k \in 1 .. Len(queue) : AppliedIndices(trace)[k] = k
                /\ (TimeOrdered(queue) =>
                      FramesBefore(trace, Len(trace) + 1) = blockFrames)))
    /\ [][\A e \in HostEvents :
            (initialized /\ Push(e)) =>
               IF Len(queue) < MAX_EVENTS
               THEN queue' = Append(queue, e) /\ lastPush' = TRUE
               ELSE queue' = queue /\ lastPush' = FALSE]_vars

\* a block in which a push was rejected has been rendered
C4_Witness ==
    /\ Rendered /\ dropped /\ lastPush = FALSE
    /\ Len(queue) = MAX_EVENTS
    /\ Len(AppliedIndices(trace)) = MAX_EVENTS

\* ------------------------------------------------------------------------
\* Properties of the node count
\* ------------------------------------------------------------------------
\* the slices of a schedule
SlicesOf(tr) == {tr[p] : p \in {q \in 1 .. Len(tr) : tr[q].op = "slice"}}

\* the node indices within the active count
ActiveIdx == 0 .. (active_node_count - 1)

ClampCount(c) ==
    IF c < 1 THEN 1 ELSE IF c > NUM_NETWORK_NODES THEN NUM_NETWORK_NODES ELSE c

\* C9: when setNodeCount returns, the active count is the requested count
\* clamped to [1, N], no note is mapped to any node, and every node that
\* was sounding before the call is released or reset.
C9_SetNodeCountStopsNotes ==
    lastCall.op = "setNodeCount" =>
       /\ active_node_count = ClampCount(lastCall.arg)
       /\ active_node_count \in 1 .. NUM_NETWORK_NODES
       /\ \A n \in Notes : note_to_node[n] = NoNode
       /\ \A i \in lastCall.before : nodes[i].state \in {"Release", "Inactive"}

\* setNodeCount returned with a request outside [1, N] while two nodes were
\* sounding: one is kept and released, the other is beyond the count
C9_Witness ==
    /\ lastCall.op = "setNodeCount" /\ lastCall.arg < 1
    /\ \E i, j \in lastCall.before :
          /\ i < active_node_count /\ nodes[i].state = "Release"
          /\ j >= active_node_count

\* C10: immediately after setNodeCount(c) returns, every node with index
\* >= clamp(c, 1, N) is Inactive with amplitude 0, whatever it was before.
C10_NodesBeyondCountReset ==
    lastCall.op = "setNodeCount" =>
       \A i \in NodeIdx :
          i >= ClampCount(lastCall.arg) =>
             /\ nodes[i].state = "Inactive"
             /\ modal_node_get_amplitude(nodes[i].amp) = 0

\* setNodeCount returned and a node beyond the new count was sounding with
\* energy just before the call
C10_Witness ==
    /\ lastCall.op = "setNodeCount"
    /\ \E i \in lastCall.before \cap lastCall.energized :
          /\ i >= ClampCount(lastCall.arg)
          /\ nodes[i].state = "Inactive"

\* ------------------------------------------------------------------------
\* Properties of the voice pool
\* ------------------------------------------------------------------------
\* the key of the voice is down: it was triggered and not released
Held(v) == v.state \in {"Attack", "Sustain"}

\* the last call was a noteOn on the initialized allocator
AfterNoteOn == vaCall.op = "noteOn"

\* ... for a note mapped to a voice
AfterMappedNoteOn == AfterNoteOn /\ vaCall.mapped >= 0

\* ... for an unmapped note that found every voice within the count busy
AfterNoteOnFullPool ==
    /\ AfterNoteOn /\ vaCall.mapped < 0
    /\ \A i \in VoiceIdx : i < va_active_node_count => i \in vaCall.busy

\* C5 as stated: at no time are two instances sounding the same note number.
C5_OneSoundingInstancePerNote ==
    \A i, j \in VoiceIdx :
       (i # j /\ voices[i].state # "Inactive" /\ voices[j].state # "Inactive")
          => voices[i].midi_note # voices[j].midi_note

\* C5 (amended): a noteOn for a mapped note re-triggers the mapped voice,
\* keeps the mapping and starts no other voice; at no time are two voices
\* held (Attack or Sustain) on the same note number.
C5_RetriggerMappedVoice ==
    /\ \A i, j \in VoiceIdx :
          (i # j /\ Held(voices[i]) /\ Held(voices[j]))
             => voices[i].midi_note # voices[j].midi_note
    /\ AfterMappedNoteOn =>
          /\ voices[vaCall.mapped].state = "Attack"
          /\ voices[vaCall.mapped].midi_note = vaCall.note
          /\ voices[vaCall.mapped].age = 0
          /\ note_to_voice[vaCall.note] = vaCall.mapped
          /\ Busy \subseteq (vaCall.busy \cup {vaCall.mapped})

\* a sounding, mapped note was struck again while another voice was free
C5_Witness ==
    /\ AfterMappedNoteOn
    /\ vaCall.mapped \in vaCall.busy
    /\ voices[vaCall.mapped].midi_note = vaCall.note
    /\ \E i \in VoiceIdx : i < va_active_node_count /\ i \notin vaCall.busy

\* C6: when a noteOn for an unmapped note finds no inactive voice within
\* the active count, the voice reassigned to the note is the busy voice of
\* greatest age (the first such voice of the pool), reset and re-triggered.
C6_OldestVoiceStolen ==
    (AfterNoteOnFullPool /\ note_to_voice[vaCall.note] # NoVoice) =>
       LET v == note_to_voice[vaCall.note]
       IN  /\ v \in VoiceIdx /\ v < va_active_node_count
           /\ \A w \in VoiceIdx :
                 w < va_active_node_count =>
                    /\ vaCall.ages[w] <= vaCall.ages[v]
                    /\ (w < v => vaCall.ages[w] < vaCall.ages[v])
           /\ voices[v].state = "Attack"
           /\ voices[v].midi_note = vaCall.note
           /\ voices[v].age = 0

\* a voice was stolen from a full pool of voices of differing ages, and the
\* oldest was not the first of the pool
C6_Witness ==
    /\ AfterNoteOnFullPool
    /\ va_active_node_count > 1
    /\ note_to_voice[vaCall.note] > 0
    /\ \A w \in VoiceIdx :
          (w < va_active_node_count /\ w # note_to_voice[vaCall.note]) =>
             vaCall.ages[w] < vaCall.ages[note_to_voice[vaCall.note]]
    /\ voices[note_to_voice[vaCall.note]].midi_note = vaCall.note

\* C7: when every voice within the active count is busy and a noteOn for an
\* unmapped note arrives, a voice is stolen and the note ends up mapped to
\* and sounding on it, whatever the ages of the busy voices.
C7_StealAlwaysSucceeds ==
    AfterNoteOnFullPool =>
       /\ note_to_voice[vaCall.note] # NoVoice
       /\ voices[note_to_voice[vaCall.note]].state = "Attack"
       /\ voices[note_to_voice[vaCall.note]].midi_note = vaCall.note

\* a noteOn found the pool full of voices of age 0 and was dropped
C7_Witness ==
    /\ AfterNoteOnFullPool
    /\ \A i \in VoiceIdx : i < va_active_node_count => vaCall.ages[i] = 0
    /\ note_to_voice[vaCall.note] = NoVoice
    /\ \A i \in VoiceIdx : voices[i].midi_note # vaCall.note

\* ------------------------------------------------------------------------
\* Properties of the instance state machine
\* ------------------------------------------------------------------------
\* C11: whenever a node is Inactive its modal state is zero, so a noteOn
\* that excites an Inactive node starts from zero amplitude.
C11_InactiveHasZeroState ==
    \A i \in NodeIdx :
       nodes[i].state = "Inactive" =>
          modal_node_get_amplitude(nodes[i].amp) = 0

\* an Inactive node within the active count holds energy while a neighbour
\* of the ring is sounding
C11_Witness ==
    /\ initialized
    /\ \E i \in NodeIdx :
          /\ i < active_node_count
          /\ nodes[i].state = "Inactive"
          /\ modal_node_get_amplitude(nodes[i].amp) > 0
          /\ \E j \in RingNeighbours(i, CouplingCount) : isActive(nodes[j])

\* the step is a noteOn, a release (noteOff, allNotesOff, or the allNotesOff
\* of setNodeCount), or a control update of the node manager
NoteOnStep == \E n \in Notes, v \in Velocities, c \in Channels : NoteOn(n, v, c)
ReleaseStep ==
    \/ \E n \in Notes : NoteOff(n)
    \/ AllNotesOff
    \/ \E count \in 0 .. (NUM_NETWORK_NODES + 1) : SetNodeCount(count)
ControlUpdateStep == UpdateNodes

\* node i goes from state s to state t by one of the transitions of the
\* state machine: noteOn, sustain, release, or silence at a control update
MachineTransition(i, s, t) ==
    \/ t = "Attack" /\ NoteOnStep
    \/ /\ s = "Attack" /\ t = "Sustain"
       /\ nodes[i].personality = "SelfOscillator"
       /\ ControlUpdateStep
    \/ s \in {"Attack", "Sustain"} /\ t = "Release" /\ ReleaseStep
    \/ /\ s = "Release" /\ t = "Inactive"
       /\ ControlUpdateStep
       /\ modal_node_get_amplitude(modal_node_step(nodes[i].amp)) < 1

\* node i is force-reset by setNodeCount: it lies beyond the new count
ForceReset(i, t) ==
    /\ t = "Inactive"
    /\ \E count \in 0 .. (NUM_NETWORK_NODES + 1) :
          SetNodeCount(count) /\ i >= ClampCount(count)

\* a noteOff for a note mapped to an Inactive node leaves the nodes alone
NoteOffOnInactive ==
    \A n \in Notes :
       (/\ NoteOff(n)
        /\ note_to_node[n] \in NodeIdx
        /\ nodes[note_to_node[n]].state = "Inactive") => nodes' = nodes

\* C12 as stated: a node changes state only by noteOn (to Attack), by a
\* control update (Attack to Sustain for a SelfOscillator, Release to
\* Inactive below the silence threshold) or by a noteOff (Attack or Sustain
\* to Release); a noteOff on an Inactive node changes nothing.
C12_OnlyMachineTransitions ==
    [][/\ \A i \in NodeIdx :
             nodes'[i].state # nodes[i].state =>
                MachineTransition(i, nodes[i].state, nodes'[i].state)
       /\ NoteOffOnInactive]_vars

\* C12 (amended): the same transitions, and in addition the force reset of
\* setNodeCount, which takes a node beyond the new count from any state to
\* Inactive at once.
C12_TransitionsAndForceReset ==
    [][/\ \A i \in NodeIdx :
             nodes'[i].state # nodes[i].state =>
                \/ MachineTransition(i, nodes[i].state, nodes'[i].state)
                \/ ForceReset(i, nodes'[i].state)
       /\ NoteOffOnInactive]_vars

\* a SelfOscillator node has reached Sustain and another node has gone
\* silent at a control update (updateModal counts the age after the reset)
C12_Witness ==
    /\ \E i \in NodeIdx :
          nodes[i].state = "Sustain" /\ nodes[i].personality = "SelfOscillator"
    /\ \E i \in NodeIdx : nodes[i].state = "Inactive" /\ nodes[i].age > 0

\* ------------------------------------------------------------------------
\* Properties of noteOff and allNotesOff
\* ------------------------------------------------------------------------
\* what a noteOff(n) step leaves: the mapping of n is cleared, the other
\* mappings and the other nodes are untouched, the modal state of the
\* mapped node is kept; After(i) is the state required of the mapped node
NoteOffEffect(n, After(_)) ==
    LET i == note_to_node[n]
    IN  IF i \in NodeIdx
        THEN /\ note_to_node' = [note_to_node EXCEPT ![n] = NoNode]
             /\ nodes'[i].amp = nodes[i].amp
             /\ nodes'[i].state = After(i)
             /\ \A j \in NodeIdx \ {i} : nodes'[j] = nodes[j]
        ELSE UNCHANGED engineVars

ReleasedState(i) == "Release"
ReleasedIfSounding(i) == IF isActive(nodes[i]) THEN "Release" ELSE "Inactive"

HeldOn(n) == {i \in NodeIdx : Held(nodes[i]) /\ nodes[i].midi_note = n}

\* C14: NodeManager::noteOff(n) releases every node associated with note n,
\* that is every node the noteOn(n) excited and that is still held; with
\* AllNodes routing all of them enter Release, not only one.
C14_NoteOffReleasesAllExcited ==
    [][\A n \in Notes :
          (NoteOff(n) /\ note_to_node[n] \in NodeIdx) =>
             \A i \in HeldOn(n) : nodes'[i].state = "Release"]_vars

\* with AllNodes routing a note was struck on several nodes and released:
\* it is unmapped, the first node is in Release and another is still held
C14_Witness ==
    /\ routing_mode = "AllNodes" /\ active_node_count > 1
    /\ \E n \in Notes :
          /\ note_to_node[n] = NoNode
          /\ nodes[0].state = "Release" /\ nodes[0].midi_note = n
          /\ \E i \in HeldOn(n) : i > 0 /\ i < active_node_count

\* no note is mapped to a node
NoNoteMapped == \A n \in Notes : note_to_node[n] = NoNode

\* a noteOff, whatever the note, would change nothing
NoteOffChangesNothing == \A n \in Notes : NM_noteOff(Engine, n) = Engine

\* C15: allNotesOff moves every active node to Release, keeping its modal
\* state, leaves the Inactive nodes alone and clears every note mapping, so
\* that afterwards no note is mapped and a noteOff for any note changes
\* nothing.
C15_AllNotesOffReleasesAll ==
    [][AllNotesOff =>
          /\ \A i \in NodeIdx :
                IF isActive(nodes[i])
                THEN nodes'[i] = [nodes[i] EXCEPT !.state = "Release"]
                ELSE nodes'[i] = nodes[i]
          /\ NoNoteMapped'
          /\ NoteOffChangesNothing']_vars

\* allNotesOff returned after it found several nodes sounding, held ones
\* among them, and they are now in Release with their energy
C15_Witness ==
    /\ lastCall.op = "allNotesOff"
    /\ Cardinality(lastCall.before \cap lastCall.energized) > 1
    /\ \A i \in lastCall.before : nodes[i].state = "Release"
    /\ \E i \in lastCall.before : nodes[i].age = 0
    /\ NoNoteMapped

\* ------------------------------------------------------------------------
\* Properties of the render callback protocol
\* ------------------------------------------------------------------------
\* the events a schedule applies, in order of application
AppliedEvents(tr, q) ==
    [k \in 1 .. Len(AppliedIndices(tr)) |-> q[AppliedIndices(tr)[k]]]

\* C16: under the beginEvents, push*, render protocol beginEvents empties
\* the queue, the queue holds exactly the events accepted since then, and
\* the render of the block applies each of them exactly once and nothing
\* else, so no event of an earlier block is applied again.
C16_EachEventAppliedOnce ==
    /\ [](/\ queue = accepted
          /\ (Rendered =>
                /\ AppliedIndices(trace) = [k \in 1 .. Len(accepted) |-> k]
                /\ AppliedEvents(trace, queue) = accepted))
    /\ [][(initialized /\ BeginEvents) => queue' = <<>>]_vars

\* a rendered block whose only event is a control change, while node 0
\* still sounds from the note-on of an earlier block
C16_Witness ==
    /\ Rendered
    /\ accepted = <<CCEvent(1)>>
    /\ Len(trace) >= 2
    /\ isActive(nodes[0])


\* the last call was process on an initialized engine
Processed == Rendered /\ lastCall.op = "process"

\* C17: in effect mode every event of the queue handed to the scheduler,
\* pushed by the host or generated by onset detection and auto note-off,
\* is applied at the frame of its own sample offset: the queue process
\* renders is ordered by sample offset whenever the host's pushes were.
C17_ProcessAppliesAtOwnOffset ==
    (Processed /\ TimeOrdered(accepted)) =>
       /\ TimeOrdered(queue)
       /\ \A p \in 1 .. Len(trace) :
            trace[p].op = "event" =>
               FramesBefore(trace, p) =
                  OffsetInBlock(queue[trace[p].index].sampleOffset, blockFrames)
       /\ FramesBefore(trace, Len(trace) + 1) = blockFrames

\* process rendered a block with a host event at a later offset and an
\* event of its own behind it in the queue
C17_Witness ==
    /\ Processed
    /\ TimeOrdered(accepted)
    /\ Len(accepted) >= 1
    /\ Len(queue) > Len(accepted)
    /\ accepted[Len(accepted)].sampleOffset > 0
    /\ accepted[Len(accepted)].sampleOffset < blockFrames

\* ------------------------------------------------------------------------
\* Properties of the control rate
\* ------------------------------------------------------------------------
\* control periods of the engine completed by rendering n more frames
EnginePeriods(n) == (controlRateCounter + n) \div CONTROL_RATE_SAMPLES

\* control periods of voice i completed by rendering n more frames
VoicePeriods(i, n) ==
    (nodes[i].samples_since_update + n) \div SamplesPerUpdate

\* the age of node i has advanced by k steps (ages saturate at MaxAge)
AgedBy(i, k) == nodes'[i].age = Min(MaxAge, nodes[i].age + k)

\* C18: a node that is active throughout a render call is stepped once per
\* control period of the rendered frames, whichever of the two control
\* periods (the engine's or the voice's) is taken as the period.
C18_OneStepPerControlPeriod ==
    [][\A n \in FrameCounts :
         (initialized /\ Render(n)) =>
            \A i \in NodeIdx :
               (isActive(nodes[i]) /\ isActive(nodes'[i])) =>
                  \/ AgedBy(i, EnginePeriods(n))
                  \/ AgedBy(i, VoicePeriods(i, n))]_vars

\* a freshly triggered node on an engine that is part-way through its
\* control period
C18_Witness ==
    /\ initialized
    /\ controlRateCounter > 0
    /\ \E i \in NodeIdx : nodes[i].state = "Attack" /\ nodes[i].age = 0

\* ------------------------------------------------------------------------
\* Properties of reset
\* ------------------------------------------------------------------------
\* C20: after reset() on a prepared engine the amplitude of every node is
\* zero, whatever the nodes were doing when reset() was called.
C20_ResetSilencesAllNodes ==
    (initialized /\ lastCall.op = "reset") =>
       \A i \in NodeIdx : modal_node_get_amplitude(nodes[i].amp) = 0

\* reset() was called on a prepared engine while a sounding node held
\* modal energy
C20_Witness ==
    /\ initialized
    /\ lastCall.op = "reset"
    /\ lastCall.before \cap lastCall.energized # {}

\* ------------------------------------------------------------------------
\* Properties of the mode parameters
\* ------------------------------------------------------------------------
\* the mode the configuration asks for on a voice playing midi_note
ConfiguredMode(midi_note, k) ==
    [omega  |-> freq_to_omega(MV_getBaseFrequency(midi_note, va_pitch_bend)
                                 * mode_params[k].freq_multiplier),
     gamma  |-> mode_params[k].damping,
     weight |-> mode_params[k].weight]

\* the voice the last noteOn triggered
TriggeredVoice == note_to_voice[vaCall.note]

\* C19: when a noteOn of the allocator returns (new allocation, steal or
\* re-trigger), each mode k of the triggered voice has the frequency of the
\* note's base frequency times the configured multiplier of mode k, with
\* the configured damping and weight, not the hardcoded ratios of the
\* voice's own note-on.
C19_ModeParamsAppliedAfterNoteOn ==
    (vaCall.op = "noteOn" /\ TriggeredVoice # NoVoice) =>
       \A k \in ModeIdx :
          va_modes[TriggeredVoice][k] = ConfiguredMode(vaCall.note, k)

\* a noteOn of note 61 took a voice from a full pool while mode 1 was
\* configured away from its default
C19_Witness ==
    /\ vaCall.op = "noteOn"
    /\ vaCall.note = 61
    /\ vaCall.mapped = NoVoice
    /\ TriggeredVoice # NoVoice
    /\ TriggeredVoice \in vaCall.busy
    /\ mode_params[1] # DefaultModeParams[1]
    /\ va_modes[TriggeredVoice][1].omega
          # freq_to_omega(midi_to_freq(61) * HardcodedRatio[1])

\* ------------------------------------------------------------------------
\* Properties of the lifecycle
\* ------------------------------------------------------------------------
\* what is configured: parameters, characters, node count, routing and
\* multi-excite mode, and the personalities the characters gave the nodes
Configuration ==
    <<params, character_ids, current_characters, mode_shapes,
      active_node_count, routing_mode, multi_excite_mode,
      [i \in NodeIdx |-> nodes[i].personality]>>

\* C21: reset() leaves the configuration as it was; what it clears is
\* transient: every note mapping and the control-rate counter, and no node
\* that was silent starts to sound.
C21_ResetKeepsConfiguration ==
    [][Reset =>
         /\ Configuration' = Configuration
         /\ initialized =>
               /\ NoNoteMapped'
               /\ controlRateCounter' = 0
               /\ Sounding' \subseteq Sounding]_vars

\* reset() was called on a configured engine (a parameter, the routing and
\* a character away from their defaults) while a node was sounding
C21_Witness ==
    /\ initialized
    /\ lastCall.op = "reset"
    /\ lastCall.before # {}
    /\ params[0] # DefaultParams[0]
    /\ routing_mode = "AllNodes"
    /\ character_ids[0] = 4
    /\ active_node_count < NUM_NETWORK_NODES


C23_EveryBufferReleasedOnce ==
    /\ buffers.leaked = 0
    /\ ~buffers.freedTwice
    /\ ~initialized =>
          (~buffers.synth_engine /\ ~buffers.wet /\ ~buffers.pitch_buffer
           /\ ~buffers.temp_buffer)

\* an initialized engine was prepared again: the temp buffers of the first
\* NodeManager::initialize are no longer pointed to
C23_Witness ==
    /\ initialized
    /\ buffers.temp_buffer
    /\ buffers.leaked >= 2


\* what an engine operation may touch: the SynthEngine, the queue, the
\* effect's note state and the allocations
EngineState ==
    <<controlRateCounter, params, nodes, character_ids, note_to_node,
      active_node_count, routing_mode, multi_excite_mode, nm_initialized,
      pitch_bend, queue, note_is_on, current_note, buffers>>

\* C24: an operation called while the engine is not initialized (before init
\* or after cleanup) is a no-op: begin, push, prepare, reset, setParameter and
\* cleanup change no state, getParameter returns 0, render and process write
\* zeros and change no state; and the flag is set only while every resource
\* the operations use is allocated
C24_UninitializedCallsAreNoOps ==
    [][/\ (~initialized /\ ~initialized') =>
            /\ EngineState' = EngineState
            /\ GetParameter(0) => paramCall'.value = 0
            /\ (Render(2) \/ Process(2, FALSE, FALSE, 61, 1)) =>
                  lastOutput' = "zeros"
       /\ initialized' =>
            (buffers'.synth_engine /\ buffers'.wet /\ buffers'.pitch_buffer
             /\ buffers'.temp_buffer)]_vars

\* an engine that was initialized, prepared at the higher rate and cleaned up
\* was asked for a parameter and then to process a block
C24_Witness ==
    /\ ~initialized
    /\ buffers.sample_rate = 48
    /\ ~buffers.synth_engine
    /\ paramCall = [op |-> "get", id |-> 0, value |-> 0, pending |-> -1]
    /\ lastCall.op = "process"
    /\ lastOutput = "zeros"


\* ------------------------------------------------------------------------
\* Properties of argument checking
\* ------------------------------------------------------------------------
\* the node network's and the voice pool's instances, note mappings and mode
\* parameters
Instruments ==
    <<nodes, note_to_node, character_ids, active_node_count, voices,
      note_to_voice, va_modes, mode_params>>

\* C25: noteOn and noteOff with a note number above 127, on the node network
\* or the voice pool, and setMode with a mode index of 4 or more change no
\* instance, no note mapping and no stored mode parameter
C25_RangeViolationsAreNoOps ==
    [][/\ \A n \in BadNotes :
            (NoteOn(n, 1, 0) \/ NoteOff(n) \/ VoiceNoteOn(n, 1)
             \/ VoiceNoteOff(n)) => Instruments' = Instruments
       /\ \A mode_idx \in BadModes :
            VoiceSetMode(mode_idx, 150, 3, 9)
               => Instruments' = Instruments]_vars

\* a noteOff above 127 reached the node network while a note was mapped and
\* sounding, with a voice of the pool busy and mode 1 reconfigured
C25_Witness ==
    /\ nm_initialized
    /\ va_initialized
    /\ lastCall.op = "noteOff"
    /\ lastCall.arg = 188
    /\ lastCall.before # {}
    /\ note_to_node[60] # NoNode
    /\ \E i \in VoiceIdx : isActive(voices[i])
    /\ mode_params[1] # DefaultModeParams[1]


\* the ranges a character's numbers have to be in, in hundredths: frequency
\* multiplier [0.1, 20], damping [0.01, 10], weight [0, 1], poke strength
\* [0, 1], poke duration [1, 50] ms, coupling gain [0.1, 2]
InRanges(character) ==
    /\ character # NullCharacter
    /\ \A i \in 1 .. 4 :
          /\ character.mode_freq_mult[i] \in 10 .. 2000
          /\ character.mode_damping[i] \in 1 .. 1000
          /\ character.mode_weight[i] \in 0 .. 100
    /\ character.poke_strength \in 0 .. 100
    /\ character.poke_duration_ms \in 100 .. 5000
    /\ character.coupling_response_gain \in 10 .. 200

\* what a node's character consists of: the stored id and data, the wave
\* shapes of its modes and the node itself
CharacterState == <<character_ids, current_characters, mode_shapes, nodes>>

\* C26: setNodeCharacter with a node index or character id out of range, and
\* setNodeCharacterCustom with a node index out of range or a character with
\* a number outside its range, change no stored character id, no character
\* data, no wave shape and no node
C26_RejectedCharacterChangesNothing ==
    [][/\ \A i \in CharacterSlots, id \in OfferedIds :
            ((i >= NUM_NETWORK_NODES \/ id >= NUM_BUILTIN_CHARACTERS)
             /\ SetNodeCharacter(i, id)) => CharacterState' = CharacterState
       /\ \A i \in CharacterSlots, character \in CustomCharacters :
            ((i >= NUM_NETWORK_NODES \/ ~InRanges(character))
             /\ SetNodeCharacterCustom(i, character))
               => CharacterState' = CharacterState]_vars

\* node 0 of an initialized network carried a custom character when a
\* character with a number outside its range was offered for it
C26_Witness ==
    /\ nm_initialized
    /\ lastCall.op = "setNodeCharacterCustom"
    /\ lastCall.arg = 0
    /\ \E character \in lastCall.before :
          character # NullCharacter /\ ~InRanges(character)
    /\ character_ids[0] = 255
    /\ current_characters[0] = HighCharacter
    /\ mode_shapes[0] = HighCharacter.mode_shape


\* ------------------------------------------------------------------------
\* Properties of the parameters
\* ------------------------------------------------------------------------
\* C27: on an initialized engine, getParameter(id) of one of the five
\* parameters, called after setParameter(id, v) with no other parameter call
\* and no render call in between, returns v
C27_ParameterRoundTrip ==
    [][\A paramId \in ParamIds :
          (initialized /\ paramCall.op = "set" /\ paramCall.id = paramId
           /\ GetParameter(paramId)) => paramCall'.value = paramCall.value]_vars

\* the mix parameter was set to the upper end of its range, away from its
\* default, and then read
C27_Witness ==
    /\ initialized
    /\ paramCall.op = "get"
    /\ paramCall.id = 4
    /\ paramCall.pending = 10
    /\ paramCall.pending # DefaultParams[4]

\* ------------------------------------------------------------------------
\* C28: render is non-allocating: no process call of a processor (and no
\* render call) allocates or releases memory; after every call the number
\* of heap allocations made inside it is zero.
\* ------------------------------------------------------------------------
C28_RenderDoesNotAllocate ==
    \A inst \in Instances : processors[inst].allocations = 0

\* a process call has run with pitch morphing on and reached the window
C28_Witness ==
    \E inst \in Instances :
        processors[inst].allocations = 4 /\ processors[inst].detections = 1

\* ------------------------------------------------------------------------
\* C30: no state is shared across instances: what a sequence of calls on
\* one processor yields (the pitch estimates it has made) is the same
\* whatever is called on the other processors in between, that is, the
\* same as in the run that uses this processor alone.
\* ------------------------------------------------------------------------
C30_InstancesAreIndependent ==
    \A inst \in Instances : processors[inst].detections = alone[inst].detections

\* both processors have processed audio with pitch morphing on
C30_Witness ==
    /\ \A inst \in Instances : processors[inst].morph
    /\ \A inst \in Instances : alone[inst].frame_counter > 0
    /\ processors[0].detections # alone[0].detections

\* ------------------------------------------------------------------------
\* C29: single-threaded use of an engine instance: while the audio thread is
\* inside a push or inside process, no other thread is inside a call on the
\* same engine (setParameter here).
\* ------------------------------------------------------------------------
C29_SingleThreadedUse ==
    threads.audio \in {"push", "process"} => threads.main = "idle"

\* the audio thread is inside the process call of a block that pushed an
\* event, after the observer has set a parameter
C29_Witness ==
    /\ threads.audio = "process"
    /\ Len(accepted) > 0
    /\ paramCall.op = "set"

\* ------------------------------------------------------------------------
\* C31: routing: a noteOn on channel ch excites, in by-channel mode, exactly
\* the node ch mod active_count, and in all-nodes mode exactly the nodes
\* 0 .. active_count - 1; every other node, and so every node with index
\* >= active_count, is left as it was.
\* ------------------------------------------------------------------------
RoutedTo(c) ==
    IF routing_mode = "MidiChannel" THEN {c % active_node_count}
    ELSE 0 .. (active_node_count - 1)

C31_RoutingSelectsNodes ==
    [][\A c \in RoutedChannels :
         (nm_initialized /\ NoteOn(60, 1, c)) =>
            \A i \in NodeIdx :
               IF i \in RoutedTo(c)
               THEN /\ nodes'[i].state = "Attack"
                    /\ nodes'[i].midi_note = 60
                    /\ nodes'[i].age = 0
                    /\ i < active_node_count
               ELSE nodes'[i] = nodes[i]]_vars

\* an all-nodes note on a network of two active nodes: both sound, the
\* node beyond the count does not
C31_Witness ==
    /\ routing_mode = "AllNodes"
    /\ active_node_count = NUM_NETWORK_NODES - 1
    /\ \A i \in NodeIdx : nodes[i].state = "Attack" <=> i < active_node_count

\* ------------------------------------------------------------------------
\* C32: with the Excite parameter at 0, process generates no note-on
\* whatever the input signal: the events a process call appends to the
\* queue hold no NoteOn, and the call leaves no node with energy that had
\* none before.
\* ------------------------------------------------------------------------
C32_ExciteZeroIsSilent ==
    [][\A energy \in SignalLevels :
         (initialized /\ params[2] = 0 /\ ProcessSignal(2, energy, 61, 1)) =>
            /\ \A k \in (Len(queue) + 1) .. Len(queue') :
                   queue'[k].type # "NoteOn"
            /\ (Energized = {} => \A i \in NodeIdx : nodes'[i].amp = 0)]_vars

\* a process call with Excite at 0 has seen a hit after silence
C32_Witness ==
    /\ initialized
    /\ params[2] = 0
    /\ lastCall.op = "process"
    /\ signal.last_energy = 40

\* ------------------------------------------------------------------------
\* C33: in Accumulate mode a noteOff for one of several held notes on the
\* same node does not move the node to Release while another note that
\* excited it is still held; the last such noteOff releases it.
\* ------------------------------------------------------------------------
\* the other notes still held on node i
OthersHeldOn(i, n) == {m \in Notes \ {n} : note_to_node[m] = i}

C33_ReleaseOnLastNoteOnly ==
    [][\A n \in Notes :
         (multi_excite_mode = "Accumulate" /\ note_to_node[n] \in NodeIdx
            /\ NoteOff(n)) =>
            LET i == note_to_node[n]
            IN  nodes'[i].state =
                   IF OthersHeldOn(i, n) # {} THEN nodes[i].state
                   ELSE "Release"]_vars

\* two notes were accumulated on one node and one of them has been
\* released
C33_Witness ==
    /\ multi_excite_mode = "Accumulate"
    /\ \E n \in Notes, m \in Notes :
          /\ note_to_node[n] = NoNode
          /\ note_to_node[m] \in NodeIdx
          /\ nodes[note_to_node[m]].state = "Release"
          /\ nodes[note_to_node[m]].amp = MaxAmp

\* ------------------------------------------------------------------------
\* C34: the allocator only uses the voices below the active count: no voice
\* with index >= active_node_count is active, whatever noteOn, noteOff and
\* setNodeCount calls were made.
\* ------------------------------------------------------------------------
C34_NoVoiceBeyondCount ==
    \A i \in VoiceIdx : i >= va_active_node_count => ~isActive(voices[i])

\* the pool was cut down to one voice and a note sounds on it
C34_Witness ==
    /\ va_initialized
    /\ va_active_node_count = 1
    /\ isActive(voices[0])
    /\ \E n \in Notes : note_to_voice[n] = 0

\* ------------------------------------------------------------------------
\* C35: the note map of the allocator is consistent: every note mapped to a
\* voice is the note that voice was last triggered with and the voice is
\* active, so no two notes are mapped to one voice and a noteOff releases
\* only a voice that sounds its note.
\* ------------------------------------------------------------------------
C35_NoteMapConsistent ==
    \A n \in Notes :
       note_to_voice[n] # NoVoice =>
          /\ voices[note_to_voice[n]].midi_note = n
          /\ isActive(voices[note_to_voice[n]])

\* a full pool took a further note by stealing: both notes are mapped
C35_Witness ==
    /\ vaCall.op = "noteOn"
    /\ vaCall.busy = VoiceIdx
    /\ vaCall.mapped = NoVoice
    /\ \A n \in Notes : note_to_voice[n] # NoVoice

\* ------------------------------------------------------------------------
\* C36: for any event list render covers every frame of [0, frameCount)
\* exactly once and none outside: each slice starts where the frames
\* rendered so far end, stays inside the block, and the slice lengths sum
\* to frameCount.
\* ------------------------------------------------------------------------
C36_EachFrameRenderedOnce ==
    Rendered =>
       /\ FramesBefore(trace, Len(trace) + 1) = blockFrames
       /\ \A p \in 1 .. Len(trace) :
             trace[p].op = "slice" =>
                /\ trace[p].start = FramesBefore(trace, p)
                /\ trace[p].start + trace[p].len <= blockFrames

\* a rendered block whose events lie before the block and beyond its end
C36_Witness ==
    /\ Rendered
    /\ Len(queue) = 2
    /\ queue[1].sampleOffset < 0
    /\ queue[2].sampleOffset > blockFrames

\* ------------------------------------------------------------------------
\* C37: no stuck notes in effect mode: after every process call note_is_on
\* is true exactly while the note process generated is held on a node, and
\* no other note is held, however many events the host pushed in the
\* block; so every generated note-on is followed by its note-off on the
\* next onset or when the input has become quiet.
\* ------------------------------------------------------------------------
C37_NoStuckNotes ==
    Processed =>
       /\ note_is_on <=> note_to_node[current_note] # NoNode
       /\ \A n \in Notes \ {current_note} : note_to_node[n] = NoNode

\* process found an onset in a block whose queue the host had filled
C37_Witness ==
    /\ Processed
    /\ note_is_on
    /\ accepted = <<CCEvent(1), CCEvent(1)>>

\* ------------------------------------------------------------------------
\* C38: a pitch bend keeps the mode ratios of each sounding voice: after
\* setPitchBend every mode k of every active voice has the bent base
\* frequency of the voice's note times the multiplier applied for mode k at
\* note-on (the configured mode parameters), damping and weight unchanged.
\* ------------------------------------------------------------------------
C38_PitchBendKeepsRatios ==
    vaCall.op = "setPitchBend" =>
       \A i \in vaCall.busy, k \in ModeIdx :
          va_modes[i][k] = ConfiguredMode(voices[i].midi_note, k)

\* the wheel was moved up while a voice was sounding
C38_Witness ==
    /\ vaCall.op = "setPitchBend"
    /\ va_pitch_bend = 1
    /\ vaCall.busy # {}

\* ------------------------------------------------------------------------
\* C39: every released Resonator voice eventually becomes Inactive: while
\* rendering continues, a voice that is in Release leaves it, either because
\* a control update found its amplitude below the silence threshold and made
\* it Inactive or because a further note-on took it back to Attack.
\* ------------------------------------------------------------------------
Releasing(v) == v.state = "Release" /\ v.personality = "Resonator"

ReleasedNodesDecay ==
    \A i \in NodeIdx :
       Releasing(nodes[i]) ~> (nodes[i].state \in {"Inactive", "Attack"})

====
